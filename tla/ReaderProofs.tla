---------------------------- MODULE ReaderProofs ----------------------------
(***************************************************************************)
(* For every bank size, clock, set of commands and verdicts: the callbacks *)
(* tell the applications of both ends what is shown, and the PD's own      *)
(* verdict on a command says truly whether all of it or none was applied;  *)
(* a timed setting ends on time; and the controller's mirror has the       *)
(* permanent colours of the PD whenever both have a slot for the light.    *)
(***************************************************************************)
EXTENDS Reader, FiniteSetTheorems, WellFoundedInduction, TLAPS

-----------------------------------------------------------------------------
(* What the callbacks said of a bank, and what the bank shows.             *)

IsSlot(s) == "state" \in DOMAIN s /\ "last" \in DOMAIN s
IsBank(bank) == \A k \in DOMAIN bank : IsSlot(bank[k])

\* h is the last value reported for each thing a bank may track, unset before
\* there was one.
SaidOf(h, bank, things, unset) ==
    \A k \in things : /\ k \in DOMAIN bank => h[k] = bank[k].last
                      /\ k \notin DOMAIN bank => h[k] = unset

LedShown(bank, now) == \A k \in DOMAIN bank : bank[k].last = LedColor(bank[k].state, now)
BuzShown(bank, now) == \A k \in DOMAIN bank : bank[k].last = BuzSounding(bank[k].state, now)

LedInv(h, bank, fresh, now) ==
    IsBank(bank) /\ SaidOf(h, bank, Lights, Black) /\ (fresh => LedShown(bank, now))
BuzInv(h, bank, fresh, now) ==
    IsBank(bank) /\ SaidOf(h, bank, Buzzers, FALSE) /\ (fresh => BuzShown(bank, now))

IsHeard(h) ==
    /\ DOMAIN h = {"pd", "acu"}
    /\ \A e \in {"pd", "acu"} : DOMAIN h[e] = {"led", "buz"}

HeardInv ==
    /\ IsHeard(heard) /\ looked \subseteq {"pd", "acu"}
    /\ LedInv(heard["pd"].led, pd_leds, "pd" \in looked \cap bound, Now)
    /\ BuzInv(heard["pd"].buz, pd_buzzers, "pd" \in looked \cap bound, Now)
    /\ LedInv(heard["acu"].led, acu_leds, "acu" \in looked \cap bound, Now)
    /\ BuzInv(heard["acu"].buz, acu_buzzers, "acu" \in looked \cap bound, Now)

\* Commands on the line are the application's.
LineInv == cmd \in Commands \cup {None} /\ pending \in Commands \cup {None}

-----------------------------------------------------------------------------
(* Loops over the records of a command.                                    *)

\* Induction on a set of numbers.
LEMMA Counting ==
    ASSUME NEW n \in Nat, NEW P, 0 \in P,
           \A i \in 0..n : i # n /\ i \in P => i + 1 \in P
    PROVE  \A i \in 0..n : i \in P
<1> DEFINE B == {i \in 0..n : i \notin P}
<1>1. CASE B = {}
  BY <1>1
<1>2. CASE B # {}
  <2> DEFINE R == OpToRel(<, Nat)
  <2>1. PICK m \in B : \A i \in B : ~ (<<i, m>> \in R)
    <3>1. B \subseteq Nat
      OBVIOUS
    <3>2. IsWellFoundedOn(R, Nat)
      BY NatLessThanWellFounded
    <3> HIDE DEF B, R
    <3> QED
      BY <1>2, <3>1, <3>2, WFMin
  <2>2. m \in Nat /\ m # 0 /\ m - 1 \in 0..n /\ m - 1 # n
    OBVIOUS
  <2>3. m - 1 \notin B
    <3>1. <<m - 1, m>> \in R
      BY <2>2 DEF OpToRel
    <3> HIDE DEF B, R
    <3> QED
      BY <2>1, <3>1
  <2>4. (m - 1) + 1 \in P
    BY <2>2, <2>3
  <2> QED
    BY <2>2, <2>4
<1> QED
  BY <1>1, <1>2

LedStep(s, r, k, now) == IF r.key = k THEN LedApply(s, r, now) ELSE s
ClaimStep(s, r, max) == IF Cardinality(s) >= max THEN s ELSE s \cup {r.key}

\* The recursive functions of the model are what their equations say.
LEMMA LedStatesDef ==
    ASSUME NEW led, NEW k, NEW recs, NEW now, Len(recs) \in Nat,
           NEW f, f = LedStates(led, k, recs, now)
    PROVE  /\ f[0] = led
           /\ \A i \in 1..Len(recs) :
                f[i] = LedStep(f[i-1], recs[i], k, now)
<1> DEFINE Step(i, s) == LedStep(s, recs[i], k, now)
           Upto(n, g) == g = [i \in 0..n |-> IF i = 0 THEN led ELSE Step(i, g[i-1])]
           P == {n \in Nat : \E g : Upto(n, g)}
<1>1. f = CHOOSE g : Upto(Len(recs), g)
  BY DEF LedStates, LedStep
<1> HIDE DEF Step
<1>2. 0 \in P
  <2>1. Upto(0, [i \in {0} |-> led])
    OBVIOUS
  <2> QED
    BY <2>1
<1>3. ASSUME NEW n \in P PROVE n + 1 \in P
  <2>1. PICK g : Upto(n, g)
    OBVIOUS
  <2> DEFINE h == [i \in 0..(n+1) |-> IF i = n + 1 THEN Step(n + 1, g[n]) ELSE g[i]]
  <2>2. n \in Nat
    OBVIOUS
  <2>3. ASSUME NEW i \in 0..(n+1)
        PROVE  h[i] = IF i = 0 THEN led ELSE Step(i, h[i-1])
    <3>1. CASE i = n + 1
      <4>1. h[i] = Step(n + 1, g[n])
        BY <3>1
      <4>2. h[n] = g[n]
        BY <2>2
      <4>3. i - 1 = n /\ i # 0
        BY <2>2, <3>1
      <4> HIDE DEF h
      <4> QED
        BY <3>1, <4>1, <4>2, <4>3
    <3>2. CASE i # n + 1
      <4>1. i \in 0..n
        BY <2>2, <3>2
      <4>2. h[i] = g[i]
        BY <3>2
      <4>3. g[i] = IF i = 0 THEN led ELSE Step(i, g[i-1])
        BY <2>1, <4>1
      <4>4. i # 0 => h[i-1] = g[i-1]
        BY <2>2, <4>1
      <4> HIDE DEF h
      <4> QED
        BY <4>2, <4>3, <4>4
    <3> QED
      BY <3>1, <3>2
  <2>4. h = [i \in 0..(n+1) |-> h[i]]
    OBVIOUS
  <2> HIDE DEF h
  <2>5. Upto(n + 1, h)
    BY <2>3, <2>4
  <2> HIDE DEF Upto
  <2>6. n + 1 \in Nat /\ \E e : Upto(n + 1, e)
    BY <2>2, <2>5
  <2> QED
    BY <2>6
<1> HIDE DEF Upto
<1>4. \A i \in 0..Len(recs) : i \in P
  <2> HIDE DEF P
  <2> QED
    BY <1>2, <1>3, Counting
<1>5. Upto(Len(recs), f)
  <2>1. \E g : Upto(Len(recs), g)
    BY <1>4
  <2> QED
    BY <1>1, <2>1, Zenon
<1>6. f[0] = led
  BY <1>5 DEF Upto
<1>7. ASSUME NEW i \in 1..Len(recs) PROVE f[i] = Step(i, f[i-1])
  <2>1. i \in 0..Len(recs) /\ i # 0
    OBVIOUS
  <2> QED
    BY <1>5, <2>1 DEF Upto
<1> QED
  BY <1>6, <1>7 DEF Step

\* The same for the slots a command claims.
LEMMA LedSlotsDef ==
    ASSUME NEW bank, NEW max, NEW recs, Len(recs) \in Nat, NEW f, f = LedSlots(bank, max, recs)
    PROVE  /\ f[0] = DOMAIN bank
           /\ \A i \in 1..Len(recs) :
                f[i] = ClaimStep(f[i-1], recs[i], max)
<1> DEFINE Step(i, s) == ClaimStep(s, recs[i], max)
           Upto(n, g) == g = [i \in 0..n |-> IF i = 0 THEN DOMAIN bank ELSE Step(i, g[i-1])]
           P == {n \in Nat : \E g : Upto(n, g)}
<1>1. f = CHOOSE g : Upto(Len(recs), g)
  BY DEF LedSlots, ClaimStep
<1> HIDE DEF Step
<1>2. 0 \in P
  <2>1. Upto(0, [i \in {0} |-> DOMAIN bank])
    OBVIOUS
  <2> QED
    BY <2>1
<1>3. ASSUME NEW n \in P PROVE n + 1 \in P
  <2>1. PICK g : Upto(n, g)
    OBVIOUS
  <2> DEFINE h == [i \in 0..(n+1) |-> IF i = n + 1 THEN Step(n + 1, g[n]) ELSE g[i]]
  <2>2. n \in Nat
    OBVIOUS
  <2>3. ASSUME NEW i \in 0..(n+1)
        PROVE  h[i] = IF i = 0 THEN DOMAIN bank ELSE Step(i, h[i-1])
    <3>1. CASE i = n + 1
      <4>1. h[i] = Step(n + 1, g[n])
        BY <3>1
      <4>2. h[n] = g[n]
        BY <2>2
      <4>3. i - 1 = n /\ i # 0
        BY <2>2, <3>1
      <4> HIDE DEF h
      <4> QED
        BY <3>1, <4>1, <4>2, <4>3
    <3>2. CASE i # n + 1
      <4>1. i \in 0..n
        BY <2>2, <3>2
      <4>2. h[i] = g[i]
        BY <3>2
      <4>3. g[i] = IF i = 0 THEN DOMAIN bank ELSE Step(i, g[i-1])
        BY <2>1, <4>1
      <4>4. i # 0 => h[i-1] = g[i-1]
        BY <2>2, <4>1
      <4> HIDE DEF h
      <4> QED
        BY <4>2, <4>3, <4>4
    <3> QED
      BY <3>1, <3>2
  <2>4. h = [i \in 0..(n+1) |-> h[i]]
    OBVIOUS
  <2> HIDE DEF h
  <2>5. Upto(n + 1, h)
    BY <2>3, <2>4
  <2> HIDE DEF Upto
  <2>6. n + 1 \in Nat /\ \E e : Upto(n + 1, e)
    BY <2>2, <2>5
  <2> QED
    BY <2>6
<1> HIDE DEF Upto
<1>4. \A i \in 0..Len(recs) : i \in P
  <2> HIDE DEF P
  <2> QED
    BY <1>2, <1>3, Counting
<1>5. Upto(Len(recs), f)
  <2>1. \E g : Upto(Len(recs), g)
    BY <1>4
  <2> QED
    BY <1>1, <2>1, Zenon
<1>6. f[0] = DOMAIN bank
  BY <1>5 DEF Upto
<1>7. ASSUME NEW i \in 1..Len(recs) PROVE f[i] = Step(i, f[i-1])
  <2>1. i \in 0..Len(recs) /\ i # 0
    OBVIOUS
  <2> QED
    BY <1>5, <2>1 DEF Upto
<1> QED
  BY <1>6, <1>7 DEF Step
\* A bank keeps its slots and claims new ones only for lights of the command; a
\* light is left without a slot only when the bank is full.
LEMMA SlotsClaimed ==
    ASSUME NEW bank, NEW max, NEW recs, Len(recs) \in Nat
    PROVE  LET S == LedSlots(bank, max, recs)[Len(recs)]
           IN  /\ DOMAIN bank \subseteq S
               /\ S \subseteq DOMAIN bank \cup {recs[i].key : i \in 1..Len(recs)}
               /\ Cardinality(DOMAIN bank) >= max => S = DOMAIN bank
               /\ \A i \in 1..Len(recs) : recs[i].key \in S \/ Cardinality(S) >= max
<1> DEFINE f == LedSlots(bank, max, recs)
           n == Len(recs)
           D == DOMAIN bank
           K == {recs[i].key : i \in 1..Len(recs)}
           Good(i) == /\ D \subseteq f[i] /\ f[i] \subseteq D \cup K
                      /\ Cardinality(D) >= max => f[i] = D
                      /\ \A j \in 1..i : recs[j].key \in f[i] \/ Cardinality(f[i]) >= max
           P == {i \in 0..n : Good(i)}
<1>0. f = LedSlots(bank, max, recs)
  OBVIOUS
<1> HIDE DEF f
<1>1. /\ f[0] = D
      /\ \A i \in 1..n : f[i] = ClaimStep(f[i-1], recs[i], max)
  BY <1>0, LedSlotsDef
<1>2. \A i \in 1..n : recs[i].key \in K
  OBVIOUS
<1> HIDE DEF D, K
<1>3. 0 \in P
  <2>1. 0 \in 0..n /\ 1..0 = {}
    OBVIOUS
  <2> QED
    BY <1>1, <2>1
<1>4. ASSUME NEW i \in 0..n, i # n, i \in P PROVE i + 1 \in P
  <2>1. i + 1 \in 1..n /\ (i + 1) - 1 = i
    BY <1>4
  <2>2. f[i+1] = IF Cardinality(f[i]) >= max THEN f[i] ELSE f[i] \cup {recs[i+1].key}
    BY <1>1, <2>1 DEF ClaimStep
  <2>3. Good(i)
    BY <1>4
  <2>4. recs[i+1].key \in K
    BY <1>2, <2>1
  <2>5. CASE Cardinality(f[i]) >= max
    <3>1. f[i+1] = f[i]
      BY <2>2, <2>5
    <3>2. Good(i+1)
      BY <2>3, <2>5, <3>1
    <3> QED
      BY <2>1, <3>2
  <2>6. CASE ~(Cardinality(f[i]) >= max)
    <3>1. f[i+1] = f[i] \cup {recs[i+1].key}
      BY <2>2, <2>6
    <3>2. ~(Cardinality(D) >= max)
      BY <2>3, <2>6
    <3>3. \A j \in 1..(i+1) : recs[j].key \in f[i+1]
      <4>1. \A j \in 1..(i+1) : j \in 1..i \/ j = i + 1
        BY <2>1
      <4> QED
        BY <2>3, <2>6, <3>1, <4>1
    <3>4. Good(i+1)
      BY <2>3, <2>4, <3>1, <3>2, <3>3
    <3> QED
      BY <2>1, <3>4
  <2> QED
    BY <2>5, <2>6
<1>5. Good(n)
  <2> HIDE DEF P, n
  <2>1. n \in Nat
    BY DEF n
  <2>2. \A i \in 0..n : i \in P
    BY <1>3, <1>4, <2>1, Counting
  <2> QED
    BY <2>1, <2>2 DEF P
<1> QED
  BY <1>5 DEF f, D, K

\* A command of the application is a sequence.
LEMMA RecordsCounted ==
    ASSUME NEW c \in Commands
    PROVE  Len(c.recs) \in Nat
<1> DEFINE T == ToSet(c.recs)
<1>1. c.recs \in Seq(T)
  BY ReaderAssumption
<1> HIDE DEF T
<1> QED
  BY <1>1

LEMMA KeysOf ==
    ASSUME NEW c \in Commands
    PROVE  {r.key : r \in ToSet(c.recs)} = Keys(c)
<1> DEFINE T == ToSet(c.recs)
<1>1. c.recs \in Seq(T)
  BY ReaderAssumption
<1> HIDE DEF T
<1>2. DOMAIN c.recs = 1..Len(c.recs)
  BY <1>1
<1>3. T = {c.recs[i] : i \in 1..Len(c.recs)}
  BY <1>2 DEF T, ToSet
<1> QED
  BY <1>3 DEF T, Keys

-----------------------------------------------------------------------------
(* Banks.                                                                  *)

\* The same slots, in the same states.
KeepsStates(new, bank) ==
    DOMAIN new = DOMAIN bank /\ \A k \in DOMAIN bank : new[k].state = bank[k].state

\* A refresh reports what is shown, if anyone listens.
LEMMA LedRefreshed ==
    ASSUME NEW end, NEW bank, IsBank(bank), SaidOf(heard[end].led, bank, Lights, Black)
    PROVE  /\ LedInv(HeardLed(end, bank), LedRefresh(end, bank), end \in bound, Now)
           /\ KeepsStates(LedRefresh(end, bank), bank)
<1> DEFINE new == LedRefresh(end, bank)
           h   == HeardLed(end, bank)
<1>1. CASE end \notin bound
  <2>1. new = bank
    BY <1>1 DEF LedRefresh
  <2>2. \A k \in Lights : h[k] = heard[end].led[k]
    BY <1>1 DEF HeardLed
  <2> QED
    BY <1>1, <2>1, <2>2 DEF LedInv, SaidOf, KeepsStates
<1>2. CASE end \in bound
  <2>1. new = [k \in DOMAIN bank |-> [bank[k] EXCEPT !.last = LedColor(bank[k].state, Now)]]
    BY <1>2 DEF LedRefresh
  <2>2. /\ DOMAIN new = DOMAIN bank
        /\ \A k \in DOMAIN bank : /\ IsSlot(new[k]) /\ new[k].state = bank[k].state
                                  /\ new[k].last = LedColor(bank[k].state, Now)
    <3>1. DOMAIN new = DOMAIN bank
      BY <2>1
    <3>2. ASSUME NEW k \in DOMAIN bank
          PROVE  /\ IsSlot(new[k]) /\ new[k].state = bank[k].state
                 /\ new[k].last = LedColor(bank[k].state, Now)
      <4> DEFINE s == bank[k]
                 v == LedColor(bank[k].state, Now)
      <4>1. new[k] = [s EXCEPT !.last = v]
        BY <2>1
      <4>2. IsSlot(s)
        BY DEF IsBank
      <4> HIDE DEF s, v, new
      <4>3. IsSlot(new[k]) /\ new[k].state = s.state /\ new[k].last = v
        BY <4>1, <4>2 DEF IsSlot
      <4> QED
        BY <4>3 DEF s, v
    <3> QED
      BY <3>1, <3>2
  <2>3. \A k \in Lights : h[k] = IF k \in DOMAIN bank /\ new[k].last # bank[k].last
                                 THEN new[k].last ELSE heard[end].led[k]
    BY <1>2 DEF HeardLed
  <2> HIDE DEF new, h
  <2>4. SaidOf(h, new, Lights, Black)
    BY <2>2, <2>3 DEF SaidOf
  <2> QED
    BY <2>2, <2>4 DEF LedInv, IsBank, LedShown, KeepsStates, new, h
<1> QED
  BY <1>1, <1>2

LEMMA BuzRefreshed ==
    ASSUME NEW end, NEW bank, IsBank(bank), SaidOf(heard[end].buz, bank, Buzzers, FALSE)
    PROVE  /\ BuzInv(HeardBuz(end, bank), BuzRefresh(end, bank), end \in bound, Now)
           /\ KeepsStates(BuzRefresh(end, bank), bank)
<1> DEFINE new == BuzRefresh(end, bank)
           h   == HeardBuz(end, bank)
<1>1. CASE end \notin bound
  <2>1. new = bank
    BY <1>1 DEF BuzRefresh
  <2>2. \A k \in Buzzers : h[k] = heard[end].buz[k]
    BY <1>1 DEF HeardBuz
  <2> QED
    BY <1>1, <2>1, <2>2 DEF BuzInv, SaidOf, KeepsStates
<1>2. CASE end \in bound
  <2>1. new = [k \in DOMAIN bank |-> [bank[k] EXCEPT !.last = BuzSounding(bank[k].state, Now)]]
    BY <1>2 DEF BuzRefresh
  <2>2. /\ DOMAIN new = DOMAIN bank
        /\ \A k \in DOMAIN bank : /\ IsSlot(new[k]) /\ new[k].state = bank[k].state
                                  /\ new[k].last = BuzSounding(bank[k].state, Now)
    <3>1. DOMAIN new = DOMAIN bank
      BY <2>1
    <3>2. ASSUME NEW k \in DOMAIN bank
          PROVE  /\ IsSlot(new[k]) /\ new[k].state = bank[k].state
                 /\ new[k].last = BuzSounding(bank[k].state, Now)
      <4> DEFINE s == bank[k]
                 v == BuzSounding(bank[k].state, Now)
      <4>1. new[k] = [s EXCEPT !.last = v]
        BY <2>1
      <4>2. IsSlot(s)
        BY DEF IsBank
      <4> HIDE DEF s, v, new
      <4>3. IsSlot(new[k]) /\ new[k].state = s.state /\ new[k].last = v
        BY <4>1, <4>2 DEF IsSlot
      <4> QED
        BY <4>3 DEF s, v
    <3> QED
      BY <3>1, <3>2
  <2>3. \A k \in Buzzers : h[k] = IF k \in DOMAIN bank /\ new[k].last # bank[k].last
                                  THEN new[k].last ELSE heard[end].buz[k]
    BY <1>2 DEF HeardBuz
  <2> HIDE DEF new, h
  <2>4. SaidOf(h, new, Buzzers, FALSE)
    BY <2>2, <2>3 DEF SaidOf
  <2> QED
    BY <2>2, <2>4 DEF BuzInv, IsBank, BuzShown, KeepsStates, new, h
<1> QED
  BY <1>1, <1>2

\* Applying records claims slots and changes states, and reports nothing.
LEMMA LedsApplied ==
    ASSUME NEW bank, NEW h, NEW slots, NEW recs, NEW now, DOMAIN bank \subseteq slots,
           IsBank(bank), SaidOf(h, bank, Lights, Black)
    PROVE  /\ IsBank(LedsAfter(bank, slots, recs, now))
           /\ SaidOf(h, LedsAfter(bank, slots, recs, now), Lights, Black)
<1> DEFINE new == LedsAfter(bank, slots, recs, now)
           S(k) == LedStates(LedSlot(bank, k).state, k, recs, now)[Len(recs)]
<1>1. /\ DOMAIN new = slots
      /\ \A k \in DOMAIN new : new[k] = [LedSlot(bank, k) EXCEPT !.state = S(k)]
  BY DEF LedsAfter
<1> HIDE DEF new, S
<1>2. ASSUME NEW k \in DOMAIN new
      PROVE  /\ IsSlot(new[k])
             /\ (k \in DOMAIN bank => new[k].last = bank[k].last)
             /\ (k \notin DOMAIN bank => new[k].last = Black)
  <2> DEFINE old == LedSlot(bank, k)
  <2>1. new[k] = [old EXCEPT !.state = S(k)]
    BY <1>1, <1>2
  <2>2. /\ IsSlot(old)
        /\ (k \in DOMAIN bank => old.last = bank[k].last)
        /\ (k \notin DOMAIN bank => old.last = Black)
    BY DEF IsBank, IsSlot, LedSlot
  <2> HIDE DEF old
  <2>3. IsSlot(new[k]) /\ new[k].last = old.last
    BY <2>1, <2>2 DEF IsSlot
  <2> QED
    BY <2>2, <2>3
<1>3. IsBank(new)
  BY <1>2 DEF IsBank
<1>4. SaidOf(h, new, Lights, Black)
  BY <1>1, <1>2 DEF SaidOf
<1> QED
  BY <1>3, <1>4 DEF new

LEMMA BuzzersApplied ==
    ASSUME NEW bank, NEW h, NEW rec, NEW now, IsBank(bank), SaidOf(h, bank, Buzzers, FALSE)
    PROVE  IsBank(BuzzersAfter(bank, rec, now)) /\ SaidOf(h, BuzzersAfter(bank, rec, now), Buzzers, FALSE)
<1> DEFINE new == BuzzersAfter(bank, rec, now)
<1>1. /\ DOMAIN new = DOMAIN bank \cup {rec.key}
      /\ \A k \in DOMAIN new :
            new[k] = IF k = rec.key
                     THEN [state |-> BuzApply(rec, now),
                           last |-> IF k \in DOMAIN bank THEN bank[k].last ELSE FALSE]
                     ELSE bank[k]
  BY DEF BuzzersAfter
<1> HIDE DEF new
<1>2. ASSUME NEW k \in DOMAIN new
      PROVE  /\ IsSlot(new[k])
             /\ (k \in DOMAIN bank => new[k].last = bank[k].last)
             /\ (k \notin DOMAIN bank => new[k].last = FALSE)
  <2> DEFINE state == BuzApply(rec, now)
             last  == IF k \in DOMAIN bank THEN bank[k].last ELSE FALSE
  <2>1. CASE k = rec.key
    <3>1. new[k] = [state |-> state, last |-> last]
      BY <1>1, <1>2, <2>1
    <3> HIDE DEF state, last
    <3>2. IsSlot(new[k]) /\ new[k].last = last
      BY <3>1 DEF IsSlot
    <3> QED
      BY <3>2 DEF last
  <2>2. CASE k # rec.key
    <3>1. k \in DOMAIN bank /\ new[k] = bank[k]
      BY <1>1, <1>2, <2>2
    <3> QED
      BY <3>1 DEF IsBank
  <2> QED
    BY <2>1, <2>2
<1>3. IsBank(new)
  BY <1>2 DEF IsBank
<1>4. SaidOf(h, new, Buzzers, FALSE)
  BY <1>1, <1>2 DEF SaidOf
<1> QED
  BY <1>3, <1>4 DEF new

-----------------------------------------------------------------------------
(* The steps.                                                              *)

\* The tail of osdp_pd_tick.
LEMMA PdRefreshKeepsHeard ==
    ASSUME HeardInv, NEW leds, NEW buzzers, IsBank(leds), IsBank(buzzers),
           SaidOf(heard["pd"].led, leds, Lights, Black),
           SaidOf(heard["pd"].buz, buzzers, Buzzers, FALSE),
           PdRefresh(leds, buzzers), UNCHANGED <<time, acuVars, bound>>
    PROVE  HeardInv'
<1> DEFINE hl == HeardLed("pd", leds)
           hb == HeardBuz("pd", buzzers)
<1>1. /\ pd_leds' = LedRefresh("pd", leds) /\ pd_buzzers' = BuzRefresh("pd", buzzers)
      /\ heard' = [heard EXCEPT !["pd"] = [led |-> hl, buz |-> hb]]
      /\ looked' = looked \cup {"pd"} /\ bound' = bound /\ Now' = Now
      /\ acu_leds' = acu_leds /\ acu_buzzers' = acu_buzzers
  BY DEF PdRefresh, acuVars, Now
<1>2. LedInv(hl, pd_leds', "pd" \in bound, Now)
  BY <1>1, LedRefreshed
<1>3. BuzInv(hb, pd_buzzers', "pd" \in bound, Now)
  BY <1>1, BuzRefreshed
<1> HIDE DEF hl, hb
<1>4. /\ IsHeard(heard') /\ heard'["pd"].led = hl /\ heard'["pd"].buz = hb
      /\ heard'["acu"] = heard["acu"]
  BY <1>1 DEF HeardInv, IsHeard
<1>5. /\ LedInv(heard'["pd"].led, pd_leds', "pd" \in looked' \cap bound', Now')
      /\ BuzInv(heard'["pd"].buz, pd_buzzers', "pd" \in looked' \cap bound', Now')
  BY <1>1, <1>2, <1>3, <1>4 DEF LedInv, BuzInv
<1>6. /\ LedInv(heard'["acu"].led, acu_leds', "acu" \in looked' \cap bound', Now')
      /\ BuzInv(heard'["acu"].buz, acu_buzzers', "acu" \in looked' \cap bound', Now')
  BY <1>1, <1>4 DEF HeardInv, LedInv, BuzInv
<1> QED
  BY <1>1, <1>4, <1>5, <1>6 DEF HeardInv

\* acu_observe_led and acu_observe_buzzer.
LEMMA ObserveKeepsHeard ==
    ASSUME HeardInv, NEW c \in Commands, AcuObserve(c), UNCHANGED <<time, pdVars, bound, looked>>
    PROVE  HeardInv'
<1>0. /\ bound' = bound /\ looked' = looked /\ Now' = Now
      /\ pd_leds' = pd_leds /\ pd_buzzers' = pd_buzzers
  BY DEF pdVars, Now
<1>1. CASE UNCHANGED <<acu_leds, acu_buzzers, heard>>
  BY <1>0, <1>1 DEF HeardInv
<1>2. ASSUME NEW bank, IsBank(bank), SaidOf(heard["acu"].led, bank, Lights, Black),
             acu_leds' = LedRefresh("acu", bank), acu_buzzers' = acu_buzzers,
             heard' = [heard EXCEPT !["acu"].led = HeardLed("acu", bank)]
      PROVE  HeardInv'
  <2> DEFINE hl == HeardLed("acu", bank)
  <2>1. LedInv(hl, acu_leds', "acu" \in bound, Now)
    BY <1>2, LedRefreshed
  <2>2. heard' = [heard EXCEPT !["acu"].led = hl]
    BY <1>2
  <2> HIDE DEF hl
  <2>3. /\ IsHeard(heard') /\ heard'["acu"].led = hl
        /\ heard'["acu"].buz = heard["acu"].buz /\ heard'["pd"] = heard["pd"]
    BY <2>2 DEF HeardInv, IsHeard
  <2>4. LedInv(heard'["acu"].led, acu_leds', "acu" \in looked' \cap bound', Now')
    BY <2>1, <2>3, <1>0 DEF LedInv
  <2> QED
    BY <2>3, <2>4, <1>0, <1>2 DEF HeardInv
<1>3. ASSUME NEW bank, IsBank(bank), SaidOf(heard["acu"].buz, bank, Buzzers, FALSE),
             acu_buzzers' = BuzRefresh("acu", bank), acu_leds' = acu_leds,
             heard' = [heard EXCEPT !["acu"].buz = HeardBuz("acu", bank)]
      PROVE  HeardInv'
  <2> DEFINE hb == HeardBuz("acu", bank)
  <2>1. BuzInv(hb, acu_buzzers', "acu" \in bound, Now)
    BY <1>3, BuzRefreshed
  <2>2. heard' = [heard EXCEPT !["acu"].buz = hb]
    BY <1>3
  <2> HIDE DEF hb
  <2>3. /\ IsHeard(heard') /\ heard'["acu"].buz = hb
        /\ heard'["acu"].led = heard["acu"].led /\ heard'["pd"] = heard["pd"]
    BY <2>2 DEF HeardInv, IsHeard
  <2>4. BuzInv(heard'["acu"].buz, acu_buzzers', "acu" \in looked' \cap bound', Now')
    BY <2>1, <2>3, <1>0 DEF BuzInv
  <2> QED
    BY <2>3, <2>4, <1>0, <1>3 DEF HeardInv
<1>4. CASE c.code = "BUZ"
  <2> DEFINE k    == c.recs[1].key
             full == BuzzersAfter(acu_buzzers, c.recs[1], Now)
             bank == IF BuzzerHasSlot(acu_buzzers, AcuMaxBuzzers, k) THEN full ELSE acu_buzzers
  <2>1. IsBank(acu_buzzers) /\ SaidOf(heard["acu"].buz, acu_buzzers, Buzzers, FALSE)
    BY DEF HeardInv, BuzInv
  <2>2. IsBank(full) /\ SaidOf(heard["acu"].buz, full, Buzzers, FALSE)
    BY <2>1, BuzzersApplied
  <2>3. \/ UNCHANGED <<acu_leds, acu_buzzers, heard>>
        \/ /\ acu_buzzers' = BuzRefresh("acu", bank) /\ acu_leds' = acu_leds
           /\ heard' = [heard EXCEPT !["acu"].buz = HeardBuz("acu", bank)]
    BY <1>4 DEF AcuObserve, AcuObserveBuzzer
  <2> HIDE DEF full
  <2>4. IsBank(bank) /\ SaidOf(heard["acu"].buz, bank, Buzzers, FALSE)
    BY <2>1, <2>2
  <2> HIDE DEF bank
  <2> QED
    BY <2>3, <2>4, <1>1, <1>3
<1>5. CASE c.code # "BUZ"
  <2> DEFINE slots == LedSlots(acu_leds, AcuMaxLeds, c.recs)[Len(c.recs)]
             bank  == LedsAfter(acu_leds, slots, c.recs, Now)
  <2>1. IsBank(acu_leds) /\ SaidOf(heard["acu"].led, acu_leds, Lights, Black)
    BY DEF HeardInv, LedInv
  <2>2. IsBank(bank) /\ SaidOf(heard["acu"].led, bank, Lights, Black)
    <3>1. DOMAIN acu_leds \subseteq slots
      BY RecordsCounted, SlotsClaimed
    <3> HIDE DEF slots
    <3> QED
      BY <2>1, <3>1, LedsApplied
  <2>3. \/ UNCHANGED <<acu_leds, acu_buzzers, heard>>
        \/ /\ acu_leds' = LedRefresh("acu", bank) /\ acu_buzzers' = acu_buzzers
           /\ heard' = [heard EXCEPT !["acu"].led = HeardLed("acu", bank)]
    BY <1>5 DEF AcuObserve, AcuObserveLed
  <2> HIDE DEF bank
  <2> QED
    BY <2>2, <2>3, <1>1, <1>2
<1> QED
  BY <1>4, <1>5

\* The tail of osdp_acu_tick.
LEMMA AcuTickKeepsHeard ==
    ASSUME HeardInv, AcuTick
    PROVE  HeardInv'
<1> DEFINE hl == HeardLed("acu", acu_leds)
           hb == HeardBuz("acu", acu_buzzers)
<1>1. /\ acu_leds' = LedRefresh("acu", acu_leds) /\ acu_buzzers' = BuzRefresh("acu", acu_buzzers)
      /\ heard' = [heard EXCEPT !["acu"] = [led |-> hl, buz |-> hb]]
      /\ looked' = looked \cup {"acu"} /\ bound' = bound /\ Now' = Now
      /\ pd_leds' = pd_leds /\ pd_buzzers' = pd_buzzers
  BY DEF AcuTick, pdVars, Now
<1>2. LedInv(hl, acu_leds', "acu" \in bound, Now)
  BY <1>1, LedRefreshed DEF HeardInv, LedInv
<1>3. BuzInv(hb, acu_buzzers', "acu" \in bound, Now)
  BY <1>1, BuzRefreshed DEF HeardInv, BuzInv
<1> HIDE DEF hl, hb
<1>4. /\ IsHeard(heard') /\ heard'["acu"].led = hl /\ heard'["acu"].buz = hb
      /\ heard'["pd"] = heard["pd"]
  BY <1>1 DEF HeardInv, IsHeard
<1>5. /\ LedInv(heard'["acu"].led, acu_leds', "acu" \in looked' \cap bound', Now')
      /\ BuzInv(heard'["acu"].buz, acu_buzzers', "acu" \in looked' \cap bound', Now')
  BY <1>1, <1>2, <1>3, <1>4 DEF LedInv, BuzInv
<1>6. /\ LedInv(heard'["pd"].led, pd_leds', "pd" \in looked' \cap bound', Now')
      /\ BuzInv(heard'["pd"].buz, pd_buzzers', "pd" \in looked' \cap bound', Now')
  BY <1>1, <1>4 DEF HeardInv, LedInv, BuzInv
<1> QED
  BY <1>1, <1>4, <1>5, <1>6 DEF HeardInv

\* Steps that touch no bank may at most make what was reported stale.
LEMMA StaleKeepsHeard ==
    ASSUME HeardInv, UNCHANGED <<pd_leds, pd_buzzers, acu_leds, acu_buzzers, heard>>,
           looked' \subseteq looked,
           \A e : e \in looked' \cap bound' => e \in looked \cap bound /\ Now' = Now
    PROVE  HeardInv'
BY DEF HeardInv, LedInv, BuzInv

LEMMA HeardStep ==
    ASSUME LineInv, HeardInv, [ReaderNext]_readerVars
    PROVE  HeardInv'
<1>0. /\ IsBank(pd_leds) /\ IsBank(pd_buzzers)
      /\ SaidOf(heard["pd"].led, pd_leds, Lights, Black)
      /\ SaidOf(heard["pd"].buz, pd_buzzers, Buzzers, FALSE)
  BY DEF HeardInv, LedInv, BuzInv
<1>1. CASE \E c \in Commands : AcuSend(c)
  BY <1>1, ObserveKeepsHeard DEF AcuSend
<1>2. CASE AcuRepeat
  <2>1. pending \in Commands
    BY <1>2 DEF AcuRepeat, Unanswered, LineInv
  <2> QED
    BY <1>2, <2>1, ObserveKeepsHeard DEF AcuRepeat
<1>3. CASE AcuTick
  BY <1>3, AcuTickKeepsHeard
<1>4. CASE PdTick \/ PdRetransmit
  <2>1. PdRefresh(pd_leds, pd_buzzers) /\ UNCHANGED <<time, acuVars, bound>>
    BY <1>4 DEF PdTick, PdRetransmit
  <2> QED
    BY <2>1, <1>0, PdRefreshKeepsHeard
<1>5. ASSUME NEW v, PdCommand(v) PROVE HeardInv'
  <2> DEFINE leds    == PdLedsAfter(cmd)
             buzzers == PdBuzzersAfter(cmd)
  <2>1. PdRefresh(leds, buzzers) /\ UNCHANGED <<time, acuVars, bound>>
    BY <1>5 DEF PdCommand
  <2>2. IsBank(leds) /\ SaidOf(heard["pd"].led, leds, Lights, Black)
    BY <1>0, LedsApplied DEF PdLedsAfter
  <2>3. IsBank(buzzers) /\ SaidOf(heard["pd"].buz, buzzers, Buzzers, FALSE)
    BY <1>0, BuzzersApplied DEF PdBuzzersAfter
  <2> HIDE DEF leds, buzzers
  <2> QED
    BY <2>1, <2>2, <2>3, PdRefreshKeepsHeard
<1>6. ASSUME NEW end, SetHandlers(end) PROVE HeardInv'
  <2>1. /\ UNCHANGED <<pd_leds, pd_buzzers, acu_leds, acu_buzzers, heard>> /\ Now' = Now
        /\ looked' = looked \ {end}
        /\ bound' = bound \ {end} \/ bound' = bound \cup {end}
    BY <1>6 DEF SetHandlers, pdVars, acuVars, Now
  <2> QED
    BY <2>1, StaleKeepsHeard
<1>7. CASE AcuGiveUp \/ Lose \/ UNCHANGED readerVars
  <2>1. UNCHANGED <<pd_leds, pd_buzzers, acu_leds, acu_buzzers, heard, looked, bound>> /\ Now' = Now
    BY <1>7 DEF AcuGiveUp, Lose, readerVars, pdVars, acuVars, Now
  <2> QED
    BY <2>1, StaleKeepsHeard
<1>8. CASE Clock
  <2>1. UNCHANGED <<pd_leds, pd_buzzers, acu_leds, acu_buzzers, heard>> /\ looked' = {}
    BY <1>8 DEF Clock, pdVars, acuVars
  <2> QED
    BY <2>1, StaleKeepsHeard
<1> QED
  BY <1>1, <1>2, <1>3, <1>4, <1>5, <1>6, <1>7, <1>8 DEF ReaderNext

LEMMA HeardInit == ReaderInit => HeardInv
<1> SUFFICES ASSUME ReaderInit PROVE HeardInv
  OBVIOUS
<1> DEFINE h == [led |-> [k \in Lights |-> Black], buz |-> [k \in Buzzers |-> FALSE]]
<1>1. /\ pd_leds = <<>> /\ pd_buzzers = <<>> /\ acu_leds = <<>> /\ acu_buzzers = <<>>
      /\ heard = [e \in {"pd", "acu"} |-> h] /\ looked = {}
  BY DEF ReaderInit
<1>2. /\ DOMAIN h = {"led", "buz"}
      /\ \A k \in Lights : h.led[k] = Black
      /\ \A k \in Buzzers : h.buz[k] = FALSE
  OBVIOUS
<1>3. DOMAIN <<>> = {}
  OBVIOUS
<1> HIDE DEF h
<1>4. IsHeard(heard) /\ heard["pd"] = h /\ heard["acu"] = h
  BY <1>1, <1>2 DEF IsHeard
<1> QED
  BY <1>1, <1>2, <1>3, <1>4 DEF HeardInv, LedInv, BuzInv, IsBank, SaidOf

-----------------------------------------------------------------------------
(* All of a command or none of it.                                         *)

BankInv == IsBank(pd_leds) /\ IsBank(pd_buzzers) /\ IsFiniteSet(DOMAIN pd_leds)

\* A command names finitely many lights.
LEMMA FiniteKeys ==
    ASSUME NEW recs, Len(recs) \in Nat
    PROVE  IsFiniteSet({recs[i].key : i \in 1..Len(recs)})
<1> DEFINE K == {recs[i].key : i \in 1..Len(recs)}
           f == [i \in 1..Len(recs) |-> recs[i].key]
<1>1. IsFiniteSet(1..Len(recs))
  BY FS_Interval
<1>2. f \in [1..Len(recs) -> K] /\ \A t \in K : \E i \in 1..Len(recs) : f[i] = t
  OBVIOUS
<1> HIDE DEF f, K
<1>3. f \in Surjection(1..Len(recs), K)
  BY <1>2 DEF Surjection
<1> QED
  BY <1>1, <1>3, FS_Surjection DEF K, ExistsSurjection

\* pd_led_bank_can_fit counts the slots the records need: when it lets a command
\* pass, pd_led_slot finds a slot for every record of it.
LEMMA FitMeansAll ==
    ASSUME NEW recs, NEW T, recs \in Seq(T), IsFiniteSet(DOMAIN pd_leds), BankCanFit(recs)
    PROVE  LedRecordsThatFit(recs) = Len(recs)
<1> DEFINE D == DOMAIN pd_leds
           K == {recs[i].key : i \in 1..Len(recs)}
           N == K \ D
           Fit(n) == Cardinality(D \cup {recs[i].key : i \in 1..n}) <= PdMaxLeds
           S == {n \in 0..Len(recs) : Fit(n)}
<1>0. Len(recs) \in Nat /\ PdMaxLeds \in Nat
  BY ReaderAssumption
<1>1. IsFiniteSet(K)
  BY <1>0, FiniteKeys
<1>2. Cardinality(N) <= PdMaxLeds - Cardinality(D)
  BY DEF BankCanFit
<1> HIDE DEF K, D
<1>3. IsFiniteSet(D)
  BY DEF D
<1>4. IsFiniteSet(N) /\ D \cup K = D \cup N /\ D \cap N = {}
  BY <1>1, <1>3, FS_Difference
<1> HIDE DEF N
<1>5. Cardinality(D \cup N) = Cardinality(D) + Cardinality(N) - Cardinality(D \cap N)
  BY <1>3, <1>4, FS_Union
<1>6. /\ Cardinality(D) \in Nat /\ Cardinality(N) \in Nat
      /\ Cardinality(D \cap N) = 0
  BY <1>3, <1>4, FS_CardinalityType, FS_EmptySet
<1>7. Cardinality(D \cup K) <= PdMaxLeds
  <2>1. Cardinality(D \cup K) = Cardinality(D \cup N)
    BY <1>4, Zenon
  <2> QED
    BY <1>0, <1>2, <1>5, <1>6, <2>1
<1>8. Fit(Len(recs))
  BY <1>7 DEF K
<1>9. LedRecordsThatFit(recs) = Max(S)
  BY DEF LedRecordsThatFit, D
<1> HIDE DEF Fit
<1>10. Len(recs) \in S /\ \A n \in S : n \in Nat /\ n <= Len(recs)
  BY <1>0, <1>8
<1> HIDE DEF S
<1>11. Max(S) \in S /\ \A n \in S : Max(S) >= n
  <2>1. \E x \in S : \A y \in S : x >= y
    BY <1>0, <1>10
  <2> QED
    BY <2>1 DEF Max
<1> QED
  BY <1>0, <1>9, <1>10, <1>11

LEMMA AllOrNone ==
    ASSUME BankInv, NEW c \in Commands
    PROVE  /\ Applied(c) = <<>> \/ Applied(c) = c.recs
           /\ c.recs # <<>>
           /\ c.code = "LED" \/ (c.code = "BUZ" /\ Keys(c) = {c.recs[1].key})
<1> DEFINE T == ToSet(c.recs)
<1>1. /\ c.code \in {"LED", "BUZ"} /\ c.recs \in Seq(T) /\ c.recs # <<>>
      /\ (c.code = "BUZ" => Len(c.recs) = 1)
  BY ReaderAssumption
<1> HIDE DEF T
<1>2. ASSUME BankCanFit(c.recs)
      PROVE  SubSeq(c.recs, 1, LedRecordsThatFit(c.recs)) = c.recs
  <2>1. LedRecordsThatFit(c.recs) = Len(c.recs)
    BY <1>1, <1>2, FitMeansAll DEF BankInv
  <2> DEFINE s == c.recs
  <2> HIDE DEF s
  <2>2. s \in Seq(T)
    BY <1>1 DEF s
  <2>3. SubSeq(s, 1, Len(s)) = s
    BY <2>2
  <2> QED
    BY <2>1, <2>3 DEF s
<1>3. Applied(c) = <<>> \/ Applied(c) = c.recs
  BY <1>2 DEF Applied
<1>4. ASSUME c.code = "BUZ" PROVE Keys(c) = {c.recs[1].key}
  BY <1>1, <1>4 DEF Keys
<1> QED
  BY <1>1, <1>3, <1>4

\* A refresh after a command claims no slot and changes no state.
LEMMA CommandRefreshed ==
    ASSUME BankInv, HeardInv, NEW v, PdCommand(v)
    PROVE  /\ IsBank(pd_leds') /\ KeepsStates(pd_leds', PdLedsAfter(cmd))
           /\ IsBank(pd_buzzers') /\ KeepsStates(pd_buzzers', PdBuzzersAfter(cmd))
<1> DEFINE leds    == PdLedsAfter(cmd)
           buzzers == PdBuzzersAfter(cmd)
<1>0. /\ SaidOf(heard["pd"].led, pd_leds, Lights, Black)
      /\ SaidOf(heard["pd"].buz, pd_buzzers, Buzzers, FALSE)
  BY DEF HeardInv, LedInv, BuzInv
<1>1. IsBank(leds) /\ SaidOf(heard["pd"].led, leds, Lights, Black)
  BY <1>0, LedsApplied DEF PdLedsAfter, BankInv
<1>2. IsBank(buzzers) /\ SaidOf(heard["pd"].buz, buzzers, Buzzers, FALSE)
  BY <1>0, BuzzersApplied DEF PdBuzzersAfter, BankInv
<1>3. pd_leds' = LedRefresh("pd", leds) /\ pd_buzzers' = BuzRefresh("pd", buzzers)
  BY DEF PdCommand, PdRefresh
<1> HIDE DEF leds, buzzers
<1>4. IsBank(pd_leds') /\ KeepsStates(pd_leds', leds)
  BY <1>1, <1>3, LedRefreshed DEF LedInv
<1>5. IsBank(pd_buzzers') /\ KeepsStates(pd_buzzers', buzzers)
  BY <1>2, <1>3, BuzRefreshed DEF BuzInv
<1> QED
  BY <1>4, <1>5 DEF leds, buzzers

\* The command's records are applied or its bank is left alone.
LEMMA CommandApplied ==
    ASSUME BankInv, HeardInv, cmd \in Commands, NEW v, PdCommand(v)
    PROVE  /\ BankInv'
           /\ Applied(cmd) = cmd.recs => Keys(cmd) \subseteq DOMAIN pd_leds' \cup DOMAIN pd_buzzers'
           /\ Applied(cmd) # cmd.recs =>
                /\ DOMAIN pd_leds' = DOMAIN pd_leds /\ DOMAIN pd_buzzers' = DOMAIN pd_buzzers
                /\ \A k \in DOMAIN pd_leds : pd_leds'[k].state = pd_leds[k].state
                /\ \A k \in DOMAIN pd_buzzers : pd_buzzers'[k].state = pd_buzzers[k].state
<1> DEFINE leds    == PdLedsAfter(cmd)
           buzzers == PdBuzzersAfter(cmd)
<1>4. /\ DOMAIN pd_leds' = DOMAIN leds /\ IsBank(pd_leds')
      /\ \A k \in DOMAIN leds : pd_leds'[k].state = leds[k].state
  BY CommandRefreshed DEF KeepsStates
<1>5. /\ DOMAIN pd_buzzers' = DOMAIN buzzers /\ IsBank(pd_buzzers')
      /\ \A k \in DOMAIN buzzers : pd_buzzers'[k].state = buzzers[k].state
  BY CommandRefreshed DEF KeepsStates
<1>6. CASE Applied(cmd) = <<>>
  <2>1. leds = pd_leds /\ buzzers = pd_buzzers
    BY <1>6 DEF PdLedsAfter, PdBuzzersAfter
  <2>2. Applied(cmd) # cmd.recs
    BY <1>6, AllOrNone
  <2> QED
    BY <1>4, <1>5, <2>1, <2>2 DEF BankInv
<1>7. CASE Applied(cmd) = cmd.recs /\ Applied(cmd) # <<>>
  <2>1. CASE cmd.code = "LED"
    <3>1. leds = LedsAfter(pd_leds, DOMAIN pd_leds \cup Keys(cmd), cmd.recs, Now)
      BY <1>7, <2>1, KeysOf DEF PdLedsAfter
    <3>2. DOMAIN leds = DOMAIN pd_leds \cup Keys(cmd)
      BY <3>1 DEF LedsAfter
    <3>3. IsFiniteSet(Keys(cmd))
      BY RecordsCounted, FiniteKeys DEF Keys
    <3>4. IsFiniteSet(DOMAIN leds)
      BY <3>2, <3>3, FS_Union DEF BankInv
    <3> HIDE DEF leds
    <3> QED
      BY <1>4, <1>5, <1>7, <3>2, <3>4 DEF BankInv
  <2>2. CASE cmd.code = "BUZ"
    <3>1. leds = pd_leds /\ buzzers = BuzzersAfter(pd_buzzers, cmd.recs[1], Now)
      BY <1>7, <2>2 DEF PdLedsAfter, PdBuzzersAfter
    <3>2. DOMAIN buzzers = DOMAIN pd_buzzers \cup {cmd.recs[1].key}
      BY <3>1 DEF BuzzersAfter
    <3>3. Keys(cmd) = {cmd.recs[1].key}
      BY <2>2, AllOrNone
    <3> HIDE DEF leds, buzzers
    <3> QED
      BY <1>4, <1>5, <1>7, <3>1, <3>2, <3>3 DEF BankInv
  <2> QED
    BY <2>1, <2>2, AllOrNone
<1> QED
  BY <1>6, <1>7, AllOrNone

LEMMA LineInit == ReaderInit => LineInv /\ BankInv
<1> SUFFICES ASSUME ReaderInit PROVE LineInv /\ BankInv
  OBVIOUS
<1>1. cmd = None /\ pending = None /\ pd_leds = <<>> /\ pd_buzzers = <<>>
  BY DEF ReaderInit
<1>2. DOMAIN <<>> = {}
  OBVIOUS
<1> QED
  BY <1>1, <1>2, FS_EmptySet DEF LineInv, BankInv, IsBank

LEMMA LineStep ==
    ASSUME LineInv, BankInv, HeardInv, [ReaderNext]_readerVars
    PROVE  LineInv' /\ BankInv'
<1>1. LineInv'
  <2>1. ASSUME NEW c \in Commands, AcuSend(c) PROVE LineInv'
    BY <2>1 DEF AcuSend, LineInv
  <2>2. CASE AcuRepeat \/ AcuGiveUp
    BY <2>2 DEF AcuRepeat, AcuGiveUp, LineInv
  <2>3. CASE AcuTick
    BY <2>3 DEF AcuTick, LineInv
  <2>4. CASE PdTick \/ PdRetransmit
    BY <2>4 DEF PdTick, PdRetransmit, LineInv
  <2>5. ASSUME NEW v, PdCommand(v) PROVE LineInv'
    BY <2>5 DEF PdCommand, LineInv
  <2>6. ASSUME NEW end, SetHandlers(end) PROVE LineInv'
    BY <2>6 DEF SetHandlers, LineInv
  <2>7. CASE Lose \/ Clock \/ UNCHANGED readerVars
    BY <2>7 DEF Lose, Clock, readerVars, LineInv
  <2> QED
    BY <2>1, <2>2, <2>3, <2>4, <2>5, <2>6, <2>7 DEF ReaderNext
<1>2. ASSUME UNCHANGED pdVars PROVE BankInv'
  BY <1>2 DEF pdVars, BankInv
<1>3. ASSUME PdTick \/ PdRetransmit PROVE BankInv'
  <2>1. pd_leds' = LedRefresh("pd", pd_leds) /\ pd_buzzers' = BuzRefresh("pd", pd_buzzers)
    BY <1>3 DEF PdTick, PdRetransmit, PdRefresh
  <2>2. /\ SaidOf(heard["pd"].led, pd_leds, Lights, Black)
        /\ SaidOf(heard["pd"].buz, pd_buzzers, Buzzers, FALSE)
    BY DEF HeardInv, LedInv, BuzInv
  <2>3. DOMAIN pd_leds' = DOMAIN pd_leds /\ IsBank(pd_leds')
    BY <2>1, <2>2, LedRefreshed DEF LedInv, BankInv, KeepsStates
  <2>4. IsBank(pd_buzzers')
    BY <2>1, <2>2, BuzRefreshed DEF BuzInv, BankInv
  <2> QED
    BY <2>3, <2>4 DEF BankInv
<1>4. ASSUME NEW v, PdCommand(v) PROVE BankInv'
  <2>1. cmd \in Commands
    BY <1>4 DEF PdCommand, LineInv
  <2> QED
    BY <1>4, <2>1, CommandApplied
<1>5. ASSUME NEW c, AcuSend(c) PROVE BankInv'
  BY <1>2, <1>5 DEF AcuSend
<1>6. ASSUME AcuRepeat \/ AcuGiveUp PROVE BankInv'
  BY <1>2, <1>6 DEF AcuRepeat, AcuGiveUp
<1>7. ASSUME AcuTick \/ Lose \/ Clock PROVE BankInv'
  BY <1>2, <1>7 DEF AcuTick, Lose, Clock
<1>8. ASSUME NEW end, SetHandlers(end) PROVE BankInv'
  BY <1>2, <1>8 DEF SetHandlers
<1>9. ASSUME UNCHANGED readerVars PROVE BankInv'
  BY <1>2, <1>9 DEF readerVars
<1> QED
  BY <1>1, <1>3, <1>4, <1>5, <1>6, <1>7, <1>8, <1>9 DEF ReaderNext

\* An application that only listens to its callbacks knows what is shown, at
\* either end: pd_led_refresh, pd_buz_refresh and their twins report every change
\* and count nothing as reported that nobody heard.
THEOREM CallbacksTellAll == ReaderSpec => []HeardIsShown
<1>1. HeardInv => HeardIsShown
  <2> SUFFICES ASSUME HeardInv PROVE HeardIsShown
    OBVIOUS
  <2>1. ASSUME NEW h, NEW bank, LedInv(h, bank, TRUE, Now), NEW k \in Lights
        PROVE  h[k] = IF k \in DOMAIN bank THEN LedColor(bank[k].state, Now) ELSE Black
    BY <2>1 DEF LedInv, SaidOf, LedShown
  <2>2. ASSUME NEW h, NEW bank, BuzInv(h, bank, TRUE, Now), NEW k \in Buzzers
        PROVE  h[k] = (k \in DOMAIN bank /\ BuzSounding(bank[k].state, Now))
    <3>1. BuzSounding(bank[k].state, Now) \in BOOLEAN
      BY DEF BuzSounding
    <3>2. CASE k \in DOMAIN bank
      <4>1. h[k] = BuzSounding(bank[k].state, Now)
        BY <2>2, <3>2 DEF BuzInv, SaidOf, BuzShown
      <4> QED
        BY <4>1, <3>1, <3>2
    <3>3. CASE k \notin DOMAIN bank
      BY <2>2, <3>3 DEF BuzInv, SaidOf
    <3> QED
      BY <3>2, <3>3
  <2>3. ASSUME NEW end \in looked \cap bound, end = "pd"
        PROVE  LedInv(heard[end].led, pd_leds, TRUE, Now) /\ BuzInv(heard[end].buz, pd_buzzers, TRUE, Now)
    BY <2>3 DEF HeardInv, LedInv, BuzInv
  <2>4. ASSUME NEW end \in looked \cap bound, end = "acu"
        PROVE  LedInv(heard[end].led, acu_leds, TRUE, Now) /\ BuzInv(heard[end].buz, acu_buzzers, TRUE, Now)
    BY <2>4 DEF HeardInv, LedInv, BuzInv
  <2>5. \A end \in looked \cap bound : end = "pd" \/ end = "acu"
    BY DEF HeardInv
  <2>6. ASSUME NEW end \in looked \cap bound
        PROVE  LET leds    == IF end = "pd" THEN pd_leds ELSE acu_leds
                   buzzers == IF end = "pd" THEN pd_buzzers ELSE acu_buzzers
               IN  /\ \A k \in Lights : heard[end].led[k] =
                        IF k \in DOMAIN leds THEN LedColor(leds[k].state, Now) ELSE Black
                   /\ \A k \in Buzzers : heard[end].buz[k] =
                        (k \in DOMAIN buzzers /\ BuzSounding(buzzers[k].state, Now))
    <3> DEFINE leds    == IF end = "pd" THEN pd_leds ELSE acu_leds
               buzzers == IF end = "pd" THEN pd_buzzers ELSE acu_buzzers
    <3>1. LedInv(heard[end].led, leds, TRUE, Now) /\ BuzInv(heard[end].buz, buzzers, TRUE, Now)
      BY <2>3, <2>4, <2>5
    <3> HIDE DEF leds, buzzers
    <3>2. \A k \in Lights : heard[end].led[k] =
             IF k \in DOMAIN leds THEN LedColor(leds[k].state, Now) ELSE Black
      BY <3>1, <2>1
    <3>3. \A k \in Buzzers : heard[end].buz[k] =
             (k \in DOMAIN buzzers /\ BuzSounding(buzzers[k].state, Now))
      BY <3>1, <2>2
    <3> QED
      BY <3>2, <3>3 DEF leds, buzzers
  <2> QED
    BY <2>6, Zenon DEF HeardIsShown
<1> QED
  BY <1>1, LineInit, LineStep, HeardInit, HeardStep, PTL DEF ReaderSpec

\* The PD's own ACK to an LED or buzzer command means that every record found a
\* slot, and its own NAK that none was applied: pd_led_bank_can_fit decides before
\* osdp_pd_internal_observe_command touches the bank.
THEOREM AckMeansApplied == ReaderSpec => AckIsApplied
<1> DEFINE Told ==
        (cmd # None /\ rpl = NoReply /\ rpl'.by = "pd" /\ ~IsRetransmit)
        => /\ rpl'.is = "ACK" => Keys(cmd) \subseteq DOMAIN pd_leds' \cup DOMAIN pd_buzzers'
           /\ rpl'.is # "ACK" =>
                /\ DOMAIN pd_leds' = DOMAIN pd_leds /\ DOMAIN pd_buzzers' = DOMAIN pd_buzzers
                /\ \A k \in DOMAIN pd_leds : pd_leds'[k].state = pd_leds[k].state
                /\ \A k \in DOMAIN pd_buzzers : pd_buzzers'[k].state = pd_buzzers[k].state
<1>1. LineInv /\ BankInv /\ HeardInv /\ [ReaderNext]_readerVars => [Told]_readerVars
  <2> SUFFICES ASSUME LineInv, BankInv, HeardInv, ReaderNext,
                      cmd # None, rpl = NoReply, rpl'.by = "pd", ~IsRetransmit
               PROVE  Told
    BY Zenon
  <2>1. rpl' # NoReply
    BY DEF NoReply
  <2>2. PICK v \in Verdicts : PdCommand(v)
    <3>1. ASSUME NEW c, AcuSend(c) PROVE FALSE
      BY <2>1, <3>1 DEF AcuSend
    <3>2. ASSUME AcuRepeat \/ AcuGiveUp PROVE FALSE
      BY <2>1, <3>2 DEF AcuRepeat, AcuGiveUp
    <3>3. ASSUME AcuTick \/ PdTick \/ PdRetransmit PROVE FALSE
      BY <2>1, <3>3 DEF AcuTick, PdTick, PdRetransmit
    <3>4. ASSUME Lose \/ Clock PROVE FALSE
      BY <2>1, <3>4 DEF Lose, Clock
    <3>5. ASSUME NEW end, SetHandlers(end) PROVE FALSE
      BY <2>1, <3>5 DEF SetHandlers
    <3> QED
      BY <3>1, <3>2, <3>3, <3>4, <3>5, Zenon DEF ReaderNext
  <2>3. cmd \in Commands
    BY DEF LineInv
  <2> DEFINE r == DispatchReply(cmd, v)
  <2>4. rpl' = r
    BY <2>1, <2>2 DEF PdCommand, Sent
  <2>5. v = "NOT_SUPPORTED"
    BY <2>4 DEF DispatchReply
  <2>6. r.is = "ACK" <=> Observed(cmd) = "OK"
    BY <2>5 DEF DispatchReply, Observed
  <2>7. Observed(cmd) = "OK" <=> Applied(cmd) = cmd.recs
    <3>1. ASSUME ~cmd.whole PROVE Applied(cmd) # cmd.recs
      BY <2>3, <3>1, AllOrNone DEF Applied
    <3> QED
      BY <3>1 DEF Observed
  <2> HIDE DEF r
  <2> QED
    BY <2>2, <2>3, <2>4, <2>6, <2>7, CommandApplied
<1> HIDE DEF Told
<1>2. AckIsApplied <=> [][Told]_readerVars
  BY DEF AckIsApplied, Told
<1> QED
  BY <1>1, <1>2, LineInit, LineStep, HeardInit, HeardStep, PTL DEF ReaderSpec
-----------------------------------------------------------------------------
(* What the records of a command leave of a light.                         *)

IsLed(s) == DOMAIN s = {"permanent", "temporary", "temp_active", "temp_started", "temp_duration"}
Sets(r, k) == r.key = k /\ r.perm_set
Starts(r, k) == r.key = k /\ r.temp_code = "SET"

LEMMA StepApplied ==
    ASSUME NEW s, IsLed(s), NEW r, NEW k, NEW now, NEW t, t = LedStep(s, r, k, now)
    PROVE  /\ IsLed(t)
           /\ Sets(r, k) => t.permanent = r.perm
           /\ ~Sets(r, k) => t.permanent = s.permanent
           /\ Starts(r, k) => t.temp_started = now
           /\ ~Starts(r, k) /\ t.temp_active => s.temp_active /\ t.temp_started = s.temp_started
<1>1. CASE r.key # k
  BY <1>1 DEF LedStep, Sets, Starts
<1>2. CASE r.key = k
  <2> DEFINE p == IF r.perm_set THEN [s EXCEPT !.permanent = r.perm] ELSE s
  <2>1. /\ IsLed(p) /\ p.temp_active = s.temp_active /\ p.temp_started = s.temp_started
        /\ (r.perm_set => p.permanent = r.perm) /\ (~r.perm_set => p.permanent = s.permanent)
    BY DEF IsLed
  <2>2. t = LedApply(s, r, now)
    BY <1>2 DEF LedStep
  <2> HIDE DEF p
  <2>3. CASE r.temp_code = "CANCEL"
    <3>1. t = [p EXCEPT !.temp_active = FALSE]
      BY <2>2, <2>3 DEF LedApply, p
    <3>2. IsLed(t) /\ t.permanent = p.permanent /\ t.temp_active = FALSE
      BY <2>1, <3>1 DEF IsLed
    <3> QED
      BY <1>2, <2>1, <2>3, <3>2 DEF Sets, Starts
  <2>4. CASE r.temp_code = "SET"
    <3>1. t = [p EXCEPT !.temporary = r.temp, !.temp_active = TRUE, !.temp_started = now,
                        !.temp_duration = r.timer]
      BY <2>2, <2>4 DEF LedApply, p
    <3>2. IsLed(t) /\ t.permanent = p.permanent /\ t.temp_started = now
      BY <2>1, <3>1 DEF IsLed
    <3> QED
      BY <1>2, <2>1, <2>4, <3>2 DEF Sets, Starts
  <2>5. CASE r.temp_code \notin {"CANCEL", "SET"}
    <3>1. t = p
      BY <2>2, <2>5 DEF LedApply, p
    <3> QED
      BY <1>2, <2>1, <2>5, <3>1 DEF Sets, Starts
  <2> QED
    BY <2>3, <2>4, <2>5
<1> QED
  BY <1>1, <1>2

\* A light keeps what no record of the command says anything about, and a timer
\* that runs was started by the command or before it.
LEMMA LoopApplied ==
    ASSUME NEW led, IsLed(led), NEW k, NEW recs, NEW now, Len(recs) \in Nat,
           NEW e, e = LedStates(led, k, recs, now)[Len(recs)]
    PROVE  /\ IsLed(e)
           /\ (\A i \in 1..Len(recs) : ~Sets(recs[i], k)) => e.permanent = led.permanent
           /\ (\A i \in 1..Len(recs) : ~Starts(recs[i], k)) /\ e.temp_active
                => led.temp_active /\ e.temp_started = led.temp_started
           /\ (\E i \in 1..Len(recs) : Starts(recs[i], k)) /\ e.temp_active => e.temp_started = now
<1> DEFINE f == LedStates(led, k, recs, now)
           n == Len(recs)
           Good(i) ==
             /\ IsLed(f[i])
             /\ (\A j \in 1..i : ~Sets(recs[j], k)) => f[i].permanent = led.permanent
             /\ (\A j \in 1..i : ~Starts(recs[j], k)) /\ f[i].temp_active
                    => led.temp_active /\ f[i].temp_started = led.temp_started
             /\ (\E j \in 1..i : Starts(recs[j], k)) /\ f[i].temp_active => f[i].temp_started = now
           P == {i \in 0..n : Good(i)}
<1>0. f = LedStates(led, k, recs, now) /\ e = f[n]
  OBVIOUS
<1> HIDE DEF f
<1>1. f[0] = led /\ \A i \in 1..n : f[i] = LedStep(f[i-1], recs[i], k, now)
  BY <1>0, LedStatesDef
<1>2. 0 \in P
  <2>1. 0 \in 0..n /\ 1..0 = {}
    OBVIOUS
  <2>2. Good(0)
    BY <1>1, <2>1
  <2> QED
    BY <2>1, <2>2
<1>3. ASSUME NEW i \in 0..n, i # n, i \in P PROVE i + 1 \in P
  <2>1. i + 1 \in 1..n /\ (i + 1) - 1 = i /\ i + 1 \in 0..n
    BY <1>3
  <2> DEFINE s == f[i]
             r == recs[i+1]
             t == f[i+1]
  <2>2. t = LedStep(s, r, k, now)
    BY <1>1, <2>1
  <2>3. Good(i)
    BY <1>3
  <2>4. \A j : j \in 1..(i+1) <=> j \in 1..i \/ j = i + 1
    BY <2>1
  <2> HIDE DEF s, t, r
  <2>5. /\ IsLed(t)
        /\ Sets(r, k) => t.permanent = r.perm
        /\ ~Sets(r, k) => t.permanent = s.permanent
        /\ Starts(r, k) => t.temp_started = now
        /\ ~Starts(r, k) /\ t.temp_active => s.temp_active /\ t.temp_started = s.temp_started
    BY <2>2, <2>3, StepApplied DEF s
  <2>6. ASSUME \A j \in 1..(i+1) : ~Sets(recs[j], k) PROVE t.permanent = led.permanent
    BY <2>3, <2>4, <2>5, <2>6 DEF s, r
  <2>7. ASSUME \A j \in 1..(i+1) : ~Starts(recs[j], k), t.temp_active
        PROVE  led.temp_active /\ t.temp_started = led.temp_started
    <3>1. ~Starts(r, k) /\ \A j \in 1..i : ~Starts(recs[j], k)
      BY <2>4, <2>7 DEF r
    <3>2. s.temp_active /\ t.temp_started = s.temp_started
      BY <2>5, <2>7, <3>1
    <3> QED
      BY <2>3, <3>1, <3>2 DEF s
  <2>8. ASSUME \E j \in 1..(i+1) : Starts(recs[j], k), t.temp_active PROVE t.temp_started = now
    <3>1. CASE Starts(r, k)
      BY <2>5, <3>1
    <3>2. CASE ~Starts(r, k)
      <4>1. \E j \in 1..i : Starts(recs[j], k)
        BY <2>4, <2>8, <3>2 DEF r
      <4>2. s.temp_active /\ t.temp_started = s.temp_started
        BY <2>5, <2>8, <3>2
      <4> QED
        BY <2>3, <4>1, <4>2 DEF s
    <3> QED
      BY <3>1, <3>2
  <2>9. Good(i+1)
    BY <2>5, <2>6, <2>7, <2>8 DEF t
  <2> QED
    BY <2>1, <2>9
<1>4. Good(n)
  <2> HIDE DEF P, n
  <2>1. n \in Nat
    BY DEF n
  <2>2. \A i \in 0..n : i \in P
    BY <1>2, <1>3, <2>1, Counting
  <2> QED
    BY <2>1, <2>2 DEF P
<1> HIDE DEF n
<1>5. Good(n) /\ e = f[n]
  BY <1>0, <1>4
<1> QED
  BY <1>5 DEF n

\* A permanent setting does not depend on what was there before.
LEMMA LoopForgets ==
    ASSUME NEW a, IsLed(a), NEW b, IsLed(b), NEW k, NEW recs, NEW now, NEW then, Len(recs) \in Nat,
           NEW f, f = LedStates(a, k, recs, now), NEW g, g = LedStates(b, k, recs, then),
           \E i \in 1..Len(recs) : Sets(recs[i], k)
    PROVE  f[Len(recs)].permanent = g[Len(recs)].permanent
<1> DEFINE n == Len(recs)
           Good(i) ==
             /\ IsLed(f[i]) /\ IsLed(g[i])
             /\ (\E j \in 1..i : Sets(recs[j], k)) => f[i].permanent = g[i].permanent
           P == {i \in 0..n : Good(i)}
<1>1. /\ f[0] = a /\ \A i \in 1..n : f[i] = LedStep(f[i-1], recs[i], k, now)
      /\ g[0] = b /\ \A i \in 1..n : g[i] = LedStep(g[i-1], recs[i], k, then)
  BY LedStatesDef
<1>2. 0 \in P
  <2>1. 0 \in 0..n /\ 1..0 = {}
    OBVIOUS
  <2>2. Good(0)
    BY <1>1, <2>1
  <2> QED
    BY <2>1, <2>2
<1>3. ASSUME NEW i \in 0..n, i # n, i \in P PROVE i + 1 \in P
  <2>1. i + 1 \in 1..n /\ (i + 1) - 1 = i /\ i + 1 \in 0..n
    BY <1>3
  <2>2. /\ f[i+1] = LedStep(f[i], recs[i+1], k, now)
        /\ g[i+1] = LedStep(g[i], recs[i+1], k, then)
    BY <1>1, <2>1
  <2>3. Good(i)
    BY <1>3
  <2>4. \A j : j \in 1..(i+1) <=> j \in 1..i \/ j = i + 1
    BY <2>1
  <2> DEFINE r == recs[i+1]
  <2> HIDE DEF r
  <2>5. /\ IsLed(f[i+1])
        /\ Sets(r, k) => f[i+1].permanent = r.perm
        /\ ~Sets(r, k) => f[i+1].permanent = f[i].permanent
    BY <2>2, <2>3, StepApplied DEF r
  <2>6. /\ IsLed(g[i+1])
        /\ Sets(r, k) => g[i+1].permanent = r.perm
        /\ ~Sets(r, k) => g[i+1].permanent = g[i].permanent
    BY <2>2, <2>3, StepApplied DEF r
  <2>7. ASSUME \E j \in 1..(i+1) : Sets(recs[j], k) PROVE f[i+1].permanent = g[i+1].permanent
    <3>1. CASE Sets(r, k)
      BY <2>5, <2>6, <3>1
    <3>2. CASE ~Sets(r, k)
      <4>1. \E j \in 1..i : Sets(recs[j], k)
        BY <2>4, <2>7, <3>2 DEF r
      <4> QED
        BY <2>3, <2>5, <2>6, <3>2, <4>1
    <3> QED
      BY <3>1, <3>2
  <2>8. Good(i+1)
    BY <2>5, <2>6, <2>7
  <2> QED
    BY <2>1, <2>8
<1>4. Good(n)
  <2> HIDE DEF P, n
  <2>1. n \in Nat
    BY DEF n
  <2>2. \A i \in 0..n : i \in P
    BY <1>2, <1>3, <2>1, Counting
  <2> QED
    BY <2>1, <2>2 DEF P
<1> QED
  BY <1>4

\* The state of a slot that records are applied to.
LEMMA SlotApplied ==
    ASSUME NEW bank, IsBank(bank), NEW slots, NEW recs, NEW now, NEW k \in slots
    PROVE  LedsAfter(bank, slots, recs, now)[k].state =
                LedStates(LedSlot(bank, k).state, k, recs, now)[Len(recs)]
<1> DEFINE old == LedSlot(bank, k)
           s   == LedStates(LedSlot(bank, k).state, k, recs, now)[Len(recs)]
<1>1. LedsAfter(bank, slots, recs, now)[k] = [old EXCEPT !.state = s]
  BY DEF LedsAfter
<1>2. IsSlot(old)
  BY DEF IsBank, IsSlot, LedSlot
<1> HIDE DEF old, s
<1>3. [old EXCEPT !.state = s].state = s
  BY <1>2 DEF IsSlot
<1> QED
  BY <1>1, <1>3 DEF s

-----------------------------------------------------------------------------
(* Timers.                                                                 *)

Reading(t) == (ClockStart + t) % Turn

\* A timer that runs was started when the clock showed its start.
TimersInv ==
    /\ time \in 0..Horizon
    /\ DOMAIN armed = Lights \cup Buzzers
    /\ \A x \in Lights \cup Buzzers : armed[x] \in 0..time
    /\ \A k \in DOMAIN pd_leds :
         /\ k \in Lights /\ IsLed(pd_leds[k].state)
         /\ pd_leds[k].state.temp_active => pd_leds[k].state.temp_started = Reading(armed[k])
    /\ \A k \in DOMAIN pd_buzzers :
         /\ k \in Buzzers /\ pd_buzzers[k].state.started = Reading(armed[k])
         /\ pd_buzzers[k].state.count \in Nat /\ pd_buzzers[k].state.on \in Nat
         /\ pd_buzzers[k].state.off \in Nat

\* Unsigned subtraction tells the time between two readings less than a turn
\* apart, also when the clock turned over between them.
LEMMA Remainder ==
    ASSUME NEW q \in Nat, NEW r \in Nat, r < Turn
    PROVE  (q * Turn + r) % Turn = r
BY TurnAssumption

LEMMA ElapsedIsTime ==
    ASSUME NEW a \in Nat, NEW b \in Nat, a <= b, b - a < Turn
    PROVE  Elapsed(b % Turn, a % Turn) = b - a
<1> DEFINE q == a \div Turn
           x == a % Turn
           d == b - a
<1>1. Turn \in Nat /\ Turn > 0
  BY TurnAssumption
<1>2. q \in Nat /\ x \in Nat /\ x < Turn /\ a = q * Turn + x
  BY <1>1
<1>3. d \in Nat /\ d < Turn /\ b = a + d
  OBVIOUS
<1> HIDE DEF q, x, d
<1>4. CASE x + d < Turn
  <2>1. b = q * Turn + (x + d) /\ x + d \in Nat
    BY <1>1, <1>2, <1>3
  <2>2. b % Turn = x + d
    BY <1>2, <1>4, <2>1, Remainder
  <2>3. (b % Turn) + Turn - x = 1 * Turn + d
    BY <1>1, <1>2, <1>3, <2>2
  <2>4. ((b % Turn) + Turn - x) % Turn = d
    BY <1>3, <2>3, Remainder
  <2> QED
    BY <2>4 DEF Elapsed, x, d
<1>5. CASE x + d >= Turn
  <2> DEFINE y == x + d - Turn
  <2>1. y \in Nat /\ y < Turn
    BY <1>1, <1>2, <1>3, <1>5
  <2>2. (q + 1) * Turn = q * Turn + Turn /\ q * Turn \in Nat
    BY <1>1, <1>2
  <2>3. b = (q + 1) * Turn + y
    BY <1>1, <1>2, <1>3, <2>2
  <2>4. b % Turn = y
    <3> HIDE DEF y
    <3> QED
      BY <1>2, <2>1, <2>3, Remainder
  <2>5. (b % Turn) + Turn - x = 0 * Turn + d
    BY <1>1, <1>2, <1>3, <2>4
  <2>6. ((b % Turn) + Turn - x) % Turn = d
    BY <1>3, <2>5, Remainder
  <2> QED
    BY <2>6 DEF Elapsed, x, d
<1> QED
  BY <1>1, <1>2, <1>3, <1>4, <1>5

LEMMA TimersInit == ReaderInit => TimersInv
<1> SUFFICES ASSUME ReaderInit PROVE TimersInv
  OBVIOUS
<1>1. /\ time = 0 /\ pd_leds = <<>> /\ pd_buzzers = <<>>
      /\ armed = [x \in Lights \cup Buzzers |-> 0]
  BY DEF ReaderInit
<1>2. DOMAIN <<>> = {} /\ 0 \in 0..Horizon
  BY ReaderAssumption
<1> QED
  BY <1>1, <1>2 DEF TimersInv

\* The records of a command start the timers it is said to start.
LEMMA ArmsOf ==
    ASSUME NEW c \in Commands, Applied(c) = c.recs
    PROVE  /\ c.code = "LED" =>
                \A k : k \in Arms(c) <=> \E i \in 1..Len(c.recs) : Starts(c.recs[i], k)
           /\ c.code = "BUZ" => Arms(c) = Keys(c)
           /\ c.code = "LED" => Keys(c) \subseteq Lights
           /\ c.code = "BUZ" => Keys(c) \subseteq Buzzers
<1> DEFINE T == ToSet(c.recs)
<1>1. c.recs \in Seq(T)
  BY ReaderAssumption
<1> HIDE DEF T
<1>2. DOMAIN c.recs = 1..Len(c.recs)
  BY <1>1
<1>3. T = {c.recs[i] : i \in 1..Len(c.recs)}
  BY <1>2 DEF T, ToSet
<1>4. Arms(c) = {r.key : r \in {q \in T : c.code = "BUZ" \/ q.temp_code = "SET"}}
  BY DEF Arms, T
<1>5. c.code = "LED" => \A k : k \in Arms(c) <=> \E i \in 1..Len(c.recs) : Starts(c.recs[i], k)
  BY <1>3, <1>4 DEF Starts
<1>6. c.code = "BUZ" => Arms(c) = Keys(c)
  BY <1>3, <1>4 DEF Keys
<1>7. c.code = "LED" => Keys(c) \subseteq Lights
  BY DEF Lights
<1>8. c.code = "BUZ" => Keys(c) \subseteq Buzzers
  BY DEF Buzzers
<1> QED
  BY <1>5, <1>6, <1>7, <1>8

LEMMA CommandKeepsTimers ==
    ASSUME BankInv, HeardInv, TimersInv, cmd \in Commands, NEW v, PdCommand(v)
    PROVE  TimersInv'
<1> DEFINE leds    == PdLedsAfter(cmd)
           buzzers == PdBuzzersAfter(cmd)
           A       == Arms(cmd)
<1>1. KeepsStates(pd_leds', leds) /\ KeepsStates(pd_buzzers', buzzers)
  BY CommandRefreshed
<1>2. /\ time' = time /\ Now = Reading(time)
      /\ armed' = [x \in DOMAIN armed |-> IF x \in A THEN time ELSE armed[x]]
  BY DEF PdCommand, Now, Reading
<1> HIDE DEF A, leds, buzzers
<1>3. /\ time' \in 0..Horizon /\ DOMAIN armed' = Lights \cup Buzzers
      /\ \A x \in Lights \cup Buzzers : /\ armed'[x] \in 0..time'
                                        /\ armed'[x] = IF x \in A THEN time ELSE armed[x]
  BY <1>2 DEF TimersInv
<1>4. ASSUME NEW k \in DOMAIN leds
      PROVE  /\ k \in Lights /\ IsLed(leds[k].state)
             /\ leds[k].state.temp_active => leds[k].state.temp_started = Reading(armed'[k])
  <2>1. CASE leds = pd_leds /\ A \cap Lights = {}
    BY <1>3, <2>1 DEF TimersInv
  <2>2. CASE cmd.code = "LED" /\ Applied(cmd) = cmd.recs
    <3> DEFINE old == LedSlot(pd_leds, k).state
               e   == leds[k].state
    <3>1. leds = LedsAfter(pd_leds, DOMAIN pd_leds \cup Keys(cmd), cmd.recs, Now)
      BY <2>2, KeysOf, AllOrNone DEF leds, PdLedsAfter
    <3>2. k \in DOMAIN pd_leds \cup Keys(cmd)
      BY <1>4, <3>1 DEF LedsAfter
    <3>3. k \in Lights
      BY <2>2, <3>2, ArmsOf DEF TimersInv
    <3>4. e = LedStates(old, k, cmd.recs, Now)[Len(cmd.recs)]
      BY <3>1, <3>2, SlotApplied DEF BankInv
    <3>5. /\ IsLed(old)
          /\ old.temp_active => k \in DOMAIN pd_leds /\ old.temp_started = Reading(armed[k])
      <4>1. CASE k \in DOMAIN pd_leds
        BY <4>1 DEF LedSlot, TimersInv
      <4>2. CASE k \notin DOMAIN pd_leds
        <5>1. old = LedInit
          BY <4>2 DEF LedSlot
        <5>2. IsLed(LedInit) /\ LedInit.temp_active = FALSE
          BY DEF IsLed, LedInit
        <5> HIDE DEF old
        <5> QED
          BY <5>1, <5>2
      <4> QED
        BY <4>1, <4>2
    <3> HIDE DEF old, e
    <3>6. /\ IsLed(e)
          /\ (\A i \in 1..Len(cmd.recs) : ~Starts(cmd.recs[i], k)) /\ e.temp_active
                => old.temp_active /\ e.temp_started = old.temp_started
          /\ (\E i \in 1..Len(cmd.recs) : Starts(cmd.recs[i], k)) /\ e.temp_active
                => e.temp_started = Now
      BY <3>4, <3>5, RecordsCounted, LoopApplied
    <3>7. k \in A <=> \E i \in 1..Len(cmd.recs) : Starts(cmd.recs[i], k)
      BY <2>2, ArmsOf DEF A
    <3>8. ASSUME e.temp_active PROVE e.temp_started = Reading(armed'[k])
      <4>1. CASE k \in A
        <5>1. e.temp_started = Now
          BY <3>6, <3>7, <3>8, <4>1
        <5>2. armed'[k] = time
          BY <1>3, <3>3, <4>1
        <5> QED
          BY <1>2, <5>1, <5>2
      <4>2. CASE k \notin A
        <5>1. old.temp_active /\ e.temp_started = old.temp_started
          BY <3>6, <3>7, <3>8, <4>2
        <5>2. armed'[k] = armed[k]
          BY <1>3, <3>3, <4>2
        <5> QED
          BY <3>5, <5>1, <5>2
      <4> QED
        BY <4>1, <4>2
    <3> QED
      BY <3>3, <3>6, <3>8 DEF e
  <2>3. CASE cmd.code = "BUZ" /\ Applied(cmd) = cmd.recs
    <3>1. leds = pd_leds
      BY <2>3 DEF leds, PdLedsAfter
    <3>2. A \subseteq Buzzers
      BY <2>3, ArmsOf DEF A
    <3> QED
      BY <2>1, <3>1, <3>2, KeysAssumption
  <2>4. CASE Applied(cmd) = <<>>
    <3>1. leds = pd_leds /\ A = {}
      BY <2>4 DEF leds, PdLedsAfter, A, Arms, ToSet
    <3> QED
      BY <2>1, <3>1
  <2> QED
    BY <2>2, <2>3, <2>4, AllOrNone
<1>5. ASSUME NEW k \in DOMAIN buzzers
      PROVE  /\ k \in Buzzers /\ buzzers[k].state.started = Reading(armed'[k])
             /\ buzzers[k].state.count \in Nat /\ buzzers[k].state.on \in Nat
             /\ buzzers[k].state.off \in Nat
  <2>1. ASSUME k \in DOMAIN pd_buzzers, buzzers[k] = pd_buzzers[k], k \notin A
        PROVE  /\ k \in Buzzers /\ buzzers[k].state.started = Reading(armed'[k])
               /\ buzzers[k].state.count \in Nat /\ buzzers[k].state.on \in Nat
               /\ buzzers[k].state.off \in Nat
    <3>1. k \in Buzzers
      BY <2>1 DEF TimersInv
    <3>2. armed'[k] = armed[k]
      BY <1>3, <2>1, <3>1
    <3> QED
      BY <2>1, <3>1, <3>2 DEF TimersInv
  <2>2. CASE cmd.code = "BUZ" /\ Applied(cmd) = cmd.recs
    <3> DEFINE rec == cmd.recs[1]
    <3>1. buzzers = BuzzersAfter(pd_buzzers, rec, Now)
      BY <2>2, AllOrNone DEF buzzers, PdBuzzersAfter
    <3>2. A = {rec.key} /\ rec.key \in Buzzers
      BY <2>2, ArmsOf, AllOrNone DEF A
    <3>3. rec.on \in Nat /\ rec.off \in Nat /\ rec.count \in Nat
      BY <2>2, ReaderAssumption
    <3> HIDE DEF rec
    <3>4. k \in DOMAIN pd_buzzers \cup {rec.key}
      BY <1>5, <3>1 DEF BuzzersAfter
    <3>5. CASE k = rec.key
      <4> DEFINE l == IF k \in DOMAIN pd_buzzers THEN pd_buzzers[k].last ELSE FALSE
      <4>1. buzzers[k] = [state |-> BuzApply(rec, Now), last |-> l]
        BY <3>1, <3>5 DEF BuzzersAfter
      <4> HIDE DEF l
      <4>2. buzzers[k].state = BuzApply(rec, Now)
        BY <4>1
      <4>3. /\ buzzers[k].state.started = Now /\ buzzers[k].state.count = rec.count
            /\ buzzers[k].state.on = rec.on /\ buzzers[k].state.off = rec.off
        BY <4>2 DEF BuzApply
      <4>4. armed'[k] = time
        BY <1>3, <3>2, <3>5
      <4> QED
        BY <1>2, <3>2, <3>3, <3>5, <4>3, <4>4
    <3>6. CASE k # rec.key
      <4>1. buzzers[k] = pd_buzzers[k]
        BY <3>1, <3>4, <3>6 DEF BuzzersAfter
      <4> QED
        BY <2>1, <3>2, <3>4, <3>6, <4>1
    <3> QED
      BY <3>5, <3>6
  <2>3. CASE cmd.code = "LED" /\ Applied(cmd) = cmd.recs
    <3>1. buzzers = pd_buzzers
      BY <2>3 DEF buzzers, PdBuzzersAfter
    <3>2. A \subseteq Lights
      BY <2>3, ArmsOf DEF A, Starts, Keys
    <3>3. k \in Buzzers
      BY <1>5, <3>1 DEF TimersInv
    <3> QED
      BY <1>5, <2>1, <3>1, <3>2, <3>3, KeysAssumption
  <2>4. CASE Applied(cmd) = <<>>
    <3>1. buzzers = pd_buzzers /\ A = {}
      BY <2>4 DEF buzzers, PdBuzzersAfter, A, Arms, ToSet
    <3> QED
      BY <1>5, <2>1, <3>1
  <2> QED
    BY <2>2, <2>3, <2>4, AllOrNone
<1>6. \A k \in DOMAIN pd_leds' : k \in DOMAIN leds /\ pd_leds'[k].state = leds[k].state
  BY <1>1 DEF KeepsStates
<1>7. \A k \in DOMAIN pd_buzzers' : k \in DOMAIN buzzers /\ pd_buzzers'[k].state = buzzers[k].state
  BY <1>1 DEF KeepsStates
<1>8. \A k \in DOMAIN pd_leds' :
         /\ k \in Lights /\ IsLed(pd_leds'[k].state)
         /\ pd_leds'[k].state.temp_active => pd_leds'[k].state.temp_started = Reading(armed'[k])
  BY <1>4, <1>6
<1>9. \A k \in DOMAIN pd_buzzers' :
         /\ k \in Buzzers /\ pd_buzzers'[k].state.started = Reading(armed'[k])
         /\ pd_buzzers'[k].state.count \in Nat /\ pd_buzzers'[k].state.on \in Nat
         /\ pd_buzzers'[k].state.off \in Nat
  BY <1>5, <1>7
<1> QED
  BY <1>3, <1>8, <1>9 DEF TimersInv, Reading

LEMMA TimersStep ==
    ASSUME LineInv, BankInv, HeardInv, TimersInv, [ReaderNext]_readerVars
    PROVE  TimersInv'
<1>1. ASSUME KeepsStates(pd_leds', pd_leds), KeepsStates(pd_buzzers', pd_buzzers),
             armed' = armed, time' = time
      PROVE  TimersInv'
  <2>1. \A k \in DOMAIN pd_leds' : k \in DOMAIN pd_leds /\ pd_leds'[k].state = pd_leds[k].state
    BY <1>1 DEF KeepsStates
  <2>2. \A k \in DOMAIN pd_buzzers' :
            k \in DOMAIN pd_buzzers /\ pd_buzzers'[k].state = pd_buzzers[k].state
    BY <1>1 DEF KeepsStates
  <2>3. \A k \in DOMAIN pd_leds' :
           /\ k \in Lights /\ IsLed(pd_leds'[k].state)
           /\ pd_leds'[k].state.temp_active => pd_leds'[k].state.temp_started = Reading(armed[k])
    BY <2>1 DEF TimersInv
  <2>4. \A k \in DOMAIN pd_buzzers' :
           /\ k \in Buzzers /\ pd_buzzers'[k].state.started = Reading(armed[k])
           /\ pd_buzzers'[k].state.count \in Nat /\ pd_buzzers'[k].state.on \in Nat
           /\ pd_buzzers'[k].state.off \in Nat
    BY <2>2 DEF TimersInv
  <2> QED
    BY <1>1, <2>3, <2>4 DEF TimersInv, Reading
<1>2. ASSUME UNCHANGED pdVars, time' = time PROVE TimersInv'
  BY <1>1, <1>2 DEF pdVars, KeepsStates
<1>3. CASE PdTick \/ PdRetransmit
  <2>1. /\ pd_leds' = LedRefresh("pd", pd_leds) /\ pd_buzzers' = BuzRefresh("pd", pd_buzzers)
        /\ armed' = armed /\ time' = time
    BY <1>3 DEF PdTick, PdRetransmit, PdRefresh
  <2>2. /\ SaidOf(heard["pd"].led, pd_leds, Lights, Black)
        /\ SaidOf(heard["pd"].buz, pd_buzzers, Buzzers, FALSE)
    BY DEF HeardInv, LedInv, BuzInv
  <2>3. KeepsStates(pd_leds', pd_leds) /\ KeepsStates(pd_buzzers', pd_buzzers)
    BY <2>1, <2>2, LedRefreshed, BuzRefreshed DEF BankInv
  <2> QED
    BY <1>1, <2>1, <2>3
<1>4. ASSUME NEW v, PdCommand(v) PROVE TimersInv'
  <2>1. cmd \in Commands
    BY <1>4 DEF PdCommand, LineInv
  <2> QED
    BY <1>4, <2>1, CommandKeepsTimers
<1>5. CASE Clock
  <2>1. /\ time' = time + 1 /\ time < Horizon
        /\ pd_leds' = pd_leds /\ pd_buzzers' = pd_buzzers /\ armed' = armed
    BY <1>5 DEF Clock, pdVars
  <2>2. time' \in 0..Horizon /\ \A x \in Lights \cup Buzzers : armed[x] \in 0..time'
    BY <2>1, ReaderAssumption DEF TimersInv
  <2> QED
    BY <2>1, <2>2 DEF TimersInv, Reading
<1>6. ASSUME NEW c, AcuSend(c) PROVE TimersInv'
  BY <1>2, <1>6 DEF AcuSend
<1>7. CASE AcuRepeat \/ AcuGiveUp
  BY <1>2, <1>7 DEF AcuRepeat, AcuGiveUp
<1>8. CASE AcuTick \/ Lose
  BY <1>2, <1>8 DEF AcuTick, Lose
<1>9. ASSUME NEW end, SetHandlers(end) PROVE TimersInv'
  BY <1>2, <1>9 DEF SetHandlers
<1>10. CASE UNCHANGED readerVars
  BY <1>2, <1>10 DEF readerVars
<1> QED
  BY <1>3, <1>4, <1>5, <1>6, <1>7, <1>8, <1>9, <1>10 DEF ReaderNext

\* Within a turn of the clock, a temporary colour shows for exactly its time and a
\* finite buzzer pattern ends on time, wherever in the turn it was started:
\* osdp_led_color and osdp_buz_sounding measure with unsigned subtraction, and every
\* record that osdp_led_apply or osdp_buz_apply takes for a start stores the
\* clock with it.
THEOREM TimersAreExact == ReaderSpec => []TimersRunOut
<1>1. TimersInv => TimersRunOut
  <2> SUFFICES ASSUME TimersInv PROVE TimersRunOut
    OBVIOUS
  <2>1. ASSUME NEW x \in Lights \cup Buzzers, time - armed[x] < Turn
        PROVE  /\ Elapsed(Now, Reading(armed[x])) = time - armed[x]
               /\ time - armed[x] \in Nat
    <3> DEFINE a == ClockStart + armed[x]
               b == ClockStart + time
    <3>1. armed[x] \in Nat /\ time \in Nat /\ armed[x] <= time /\ time <= Horizon
      BY ReaderAssumption DEF TimersInv
    <3>2. Turn \in Nat /\ ClockStart \in Nat /\ Horizon \in Nat
      BY TurnAssumption, ReaderAssumption
    <3>3. a \in Nat /\ b \in Nat /\ a <= b /\ b - a < Turn /\ b - a = time - armed[x]
      BY <2>1, <3>1, <3>2
    <3> HIDE DEF a, b
    <3>4. Elapsed(b % Turn, a % Turn) = b - a
      BY <3>3, ElapsedIsTime
    <3> QED
      BY <3>1, <3>3, <3>4 DEF Now, Reading, a, b
  <2>2. ASSUME NEW k \in DOMAIN pd_leds, time - armed[k] < Turn, pd_leds[k].state.temp_active
        PROVE  LedColor(pd_leds[k].state, Now) =
                    IF time - armed[k] < pd_leds[k].state.temp_duration
                    THEN FlashColor(pd_leds[k].state.temporary, time - armed[k])
                    ELSE FlashColor(pd_leds[k].state.permanent, Now)
    <3> DEFINE led == pd_leds[k].state
    <3>1. k \in Lights /\ led.temp_started = Reading(armed[k])
      BY <2>2 DEF TimersInv
    <3>2. Elapsed(Now, led.temp_started) = time - armed[k]
      BY <2>1, <2>2, <3>1
    <3>3. led.temp_active
      BY <2>2
    <3> HIDE DEF led
    <3>4. LedColor(led, Now) =
            IF time - armed[k] < led.temp_duration
            THEN FlashColor(led.temporary, time - armed[k])
            ELSE FlashColor(led.permanent, Now)
      BY <3>2, <3>3, Zenon DEF LedColor
    <3> QED
      BY <3>4 DEF led
  <2>3. ASSUME NEW k \in DOMAIN pd_buzzers, time - armed[k] < Turn,
               pd_buzzers[k].state.count > 0,
               time - armed[k] >= pd_buzzers[k].state.count *
                                  (pd_buzzers[k].state.on + pd_buzzers[k].state.off)
        PROVE  ~BuzSounding(pd_buzzers[k].state, Now)
    <3> DEFINE buz == pd_buzzers[k].state
               all == buz.count * (buz.on + buz.off)
    <3>1. /\ k \in Buzzers /\ buz.started = Reading(armed[k])
          /\ buz.count \in Nat /\ buz.on \in Nat /\ buz.off \in Nat
      BY <2>3 DEF TimersInv
    <3>2. Elapsed(Now, buz.started) = time - armed[k] /\ time - armed[k] \in Nat
      BY <2>1, <2>3, <3>1
    <3>3. all \in Nat
      BY <3>1
    <3>4. BuzSounding(buz, Now) => Elapsed(Now, buz.started) < all
      BY <2>3, Zenon DEF BuzSounding
    <3>5. time - armed[k] >= all
      BY <2>3
    <3> HIDE DEF buz, all
    <3>6. ~BuzSounding(buz, Now)
      BY <3>2, <3>3, <3>4, <3>5
    <3> QED
      BY <3>6 DEF buz
  <2> QED
    BY <2>2, <2>3, Zenon DEF TimersRunOut, LightRunsOut, BuzzerRunsOut
<1> QED
  BY <1>1, LineInit, LineStep, HeardInit, HeardStep, TimersInit, TimersStep, PTL DEF ReaderSpec
-----------------------------------------------------------------------------
(* The controller's mirror.                                                *)

\* The permanent state of a light, that of a fresh slot if it has none.
Perm(bank, k) == LedSlot(bank, k).state.permanent

\* The permanent state a command leaves a light in, if it sets one.
PermOf(c, k) == LedStates(LedInit, k, c.recs, 0)[Len(c.recs)].permanent

\* The mirror has no slot for a light and will not get one.
NoSlot(bank, k) == k \notin DOMAIN bank /\ Cardinality(DOMAIN bank) >= AcuMaxLeds

Agree(k) == Perm(acu_leds, k) = Perm(pd_leds, k) \/ NoSlot(acu_leds, k)

\* The line carries one command and its answer, in turn.
TurnInv ==
    /\ cmd \in {None, pending} /\ (pending = None => rpl = NoReply)
    /\ rpl # NoReply => cmd = None

\* Mirror and PD agree on every light the command under way does not name; of the
\* lights it names, the mirror has what the command sets, and so has the PD once it
\* says that the command was applied.  What the PD has in its cache is the command
\* it carried out last.
LightInv(k) ==
    /\ k \notin diverged /\ k \notin LightsOf(pending) => Agree(k)
    /\ k \in LightsOf(pending) /\ AcuDecodes(pending) =>
         /\ k \in Restored(pending) =>
                Perm(acu_leds, k) = PermOf(pending, k) \/ NoSlot(acu_leds, k)
         /\ k \notin Restored(pending) /\ k \notin diverged => Agree(k)
    /\ k \in Restored(pending) /\ rpl.applied => Perm(pd_leds, k) = PermOf(pending, k)
    /\ k \in Restored(cache.cmd) /\ cache.rpl.applied =>
            Perm(pd_leds, k) = PermOf(cache.cmd, k)

AreLeds(bank) == \A k \in DOMAIN bank : IsLed(bank[k].state)

MirrorInv == TurnInv /\ AreLeds(acu_leds) /\ AreLeds(pd_leds) /\ \A k : LightInv(k)

LEMMA PermKept ==
    ASSUME NEW new, NEW bank, KeepsStates(new, bank)
    PROVE  /\ \A k : Perm(new, k) = Perm(bank, k)
           /\ \A k : NoSlot(new, k) <=> NoSlot(bank, k)
           /\ AreLeds(bank) => AreLeds(new)
<1>1. ASSUME NEW k PROVE Perm(new, k) = Perm(bank, k)
  <2>1. LedSlot(new, k).state = LedSlot(bank, k).state
    BY DEF KeepsStates, LedSlot
  <2> QED
    BY <2>1 DEF Perm
<1>2. ASSUME NEW k PROVE NoSlot(new, k) <=> NoSlot(bank, k)
  BY DEF KeepsStates, NoSlot
<1>3. AreLeds(bank) => AreLeds(new)
  BY DEF KeepsStates, AreLeds
<1> QED
  BY <1>1, <1>2, <1>3

LEMMA RestoredBy ==
    ASSUME NEW c, NEW k
    PROVE  /\ k \in Restored(c) =>
                c.code = "LED" /\ k \in LightsOf(c) /\ \E i \in 1..Len(c.recs) : Sets(c.recs[i], k)
           /\ k \notin Restored(c) /\ c.code = "LED" =>
                \A i \in 1..Len(c.recs) : ~Sets(c.recs[i], k)
<1>1. k \in Restored(c) =>
          c.code = "LED" /\ k \in Keys(c) /\ \E i \in 1..Len(c.recs) : Sets(c.recs[i], k)
  BY DEF Restored, Keys, Sets
<1>2. k \notin Restored(c) /\ c.code = "LED" => \A i \in 1..Len(c.recs) : ~Sets(c.recs[i], k)
  BY DEF Restored, Sets
<1> QED
  BY <1>1, <1>2 DEF LightsOf

\* An LED command sets what it sets where there is a slot, and leaves the rest.
PermTaken(c, bank, new, k) ==
    /\ k \in DOMAIN new /\ k \in Restored(c) => Perm(new, k) = PermOf(c, k)
    /\ k \notin Restored(c) => Perm(new, k) = Perm(bank, k)

LEMMA PermApplied ==
    ASSUME NEW bank, IsBank(bank), AreLeds(bank), NEW c \in Commands, c.code = "LED", NEW now,
           NEW slots, DOMAIN bank \subseteq slots,
           NEW after, after = LedsAfter(bank, slots, c.recs, now), NEW new, KeepsStates(new, after)
    PROVE  DOMAIN new = slots /\ AreLeds(new) /\ \A k : PermTaken(c, bank, new, k)
<1>1. DOMAIN new = slots
  BY DEF KeepsStates, LedsAfter
<1>2. IsLed(LedInit) /\ Len(c.recs) \in Nat
  BY RecordsCounted DEF IsLed, LedInit
<1>3. ASSUME NEW k \in slots
      PROVE  /\ IsLed(new[k].state)
             /\ k \in Restored(c) => Perm(new, k) = PermOf(c, k)
             /\ k \notin Restored(c) => Perm(new, k) = Perm(bank, k)
  <2> DEFINE old == LedSlot(bank, k).state
             f   == LedStates(old, k, c.recs, now)
             g   == LedStates(LedInit, k, c.recs, 0)
             e   == f[Len(c.recs)]
  <2>1. new[k].state = e
    BY <1>1, SlotApplied DEF KeepsStates
  <2>2. Perm(new, k) = e.permanent
    BY <1>1, <2>1 DEF Perm, LedSlot
  <2>3. IsLed(old)
    <3>1. k \in DOMAIN bank => old = bank[k].state
      BY DEF LedSlot
    <3>2. k \notin DOMAIN bank => old = LedInit
      BY DEF LedSlot
    <3> HIDE DEF old
    <3> QED
      BY <1>2, <3>1, <3>2 DEF AreLeds
  <2>4. Perm(bank, k) = old.permanent
    BY DEF Perm
  <2> HIDE DEF old
  <2>5. IsLed(e) /\ ((\A i \in 1..Len(c.recs) : ~Sets(c.recs[i], k)) => e.permanent = old.permanent)
    <3>1. e = LedStates(old, k, c.recs, now)[Len(c.recs)]
      OBVIOUS
    <3> HIDE DEF e
    <3> QED
      BY <1>2, <2>3, <3>1, LoopApplied
  <2>6. ASSUME k \in Restored(c) PROVE e.permanent = PermOf(c, k)
    <3>1. \E i \in 1..Len(c.recs) : Sets(c.recs[i], k)
      BY <2>6, RestoredBy
    <3>2. f = LedStates(old, k, c.recs, now) /\ g = LedStates(LedInit, k, c.recs, 0)
      OBVIOUS
    <3>3. PermOf(c, k) = g[Len(c.recs)].permanent
      BY DEF PermOf
    <3> HIDE DEF f, g
    <3> QED
      BY <1>2, <2>3, <3>1, <3>2, <3>3, LoopForgets
  <2> HIDE DEF e
  <2> QED
    BY <2>1, <2>2, <2>4, <2>5, <2>6, RestoredBy
<1>4. AreLeds(new)
  BY <1>1, <1>3 DEF AreLeds
<1>5. ASSUME NEW k, k \notin slots PROVE Perm(new, k) = Perm(bank, k)
  BY <1>1, <1>5 DEF Perm, LedSlot
<1>6. ASSUME NEW k PROVE PermTaken(c, bank, new, k)
  BY <1>1, <1>3, <1>5 DEF PermTaken
<1> QED
  BY <1>1, <1>4, <1>6

\* acu_observe_led: the mirror takes what the command sets for every light it has
\* a slot for, and is full if it has none.
LEMMA ObserveMirrors ==
    ASSUME HeardInv, AreLeds(acu_leds), NEW c \in Commands, AcuObserve(c), pd_leds' = pd_leds
    PROVE  /\ AreLeds(acu_leds')
           /\ \A k : k \notin Restored(c) /\ Agree(k) => Agree(k)'
           /\ \A k \in Restored(c) : AcuDecodes(c) =>
                Perm(acu_leds', k) = PermOf(c, k) \/ NoSlot(acu_leds', k)
<1>1. CASE c.code = "LED" /\ AcuDecodes(c)
  <2> DEFINE slots == LedSlots(acu_leds, AcuMaxLeds, c.recs)[Len(c.recs)]
             bank  == LedsAfter(acu_leds, slots, c.recs, Now)
  <2>1. acu_leds' = LedRefresh("acu", bank)
    BY <1>1 DEF AcuObserve, AcuObserveLed
  <2>2. /\ DOMAIN acu_leds \subseteq slots
        /\ Cardinality(DOMAIN acu_leds) >= AcuMaxLeds => slots = DOMAIN acu_leds
        /\ \A i \in 1..Len(c.recs) : c.recs[i].key \in slots \/ Cardinality(slots) >= AcuMaxLeds
    BY RecordsCounted, SlotsClaimed
  <2> HIDE DEF slots
  <2>3. IsBank(acu_leds) /\ SaidOf(heard["acu"].led, acu_leds, Lights, Black)
    BY DEF HeardInv, LedInv
  <2>4. IsBank(bank) /\ SaidOf(heard["acu"].led, bank, Lights, Black)
    BY <2>2, <2>3, LedsApplied
  <2>5. KeepsStates(acu_leds', bank)
    <3> HIDE DEF bank
    <3> QED
      BY <2>1, <2>4, LedRefreshed
  <2>6. /\ DOMAIN acu_leds' = slots /\ AreLeds(acu_leds')
        /\ \A k : PermTaken(c, acu_leds, acu_leds', k)
    <3>1. bank = LedsAfter(acu_leds, slots, c.recs, Now)
      OBVIOUS
    <3> HIDE DEF bank
    <3> QED
      BY <1>1, <2>2, <2>3, <2>5, <3>1, PermApplied
  <2>7. ASSUME NEW k, k \notin Restored(c), Agree(k) PROVE Agree(k)'
    BY <2>2, <2>6, <2>7 DEF Agree, NoSlot, PermTaken
  <2>8. ASSUME NEW k \in Restored(c)
        PROVE  Perm(acu_leds', k) = PermOf(c, k) \/ NoSlot(acu_leds', k)
    <3>1. k \in Keys(c)
      BY RestoredBy DEF LightsOf
    <3>2. k \in slots \/ Cardinality(slots) >= AcuMaxLeds
      BY <2>2, <3>1 DEF Keys
    <3> QED
      BY <2>6, <3>2 DEF NoSlot, PermTaken
  <2> QED
    BY <2>6, <2>7, <2>8
<1>2. CASE ~(c.code = "LED" /\ AcuDecodes(c))
  <2>1. acu_leds' = acu_leds
    BY <1>2 DEF AcuObserve, AcuObserveLed, AcuObserveBuzzer
  <2>2. \A k \in Restored(c) : ~AcuDecodes(c)
    BY <1>2, RestoredBy
  <2> QED
    BY <2>1, <2>2 DEF Agree
<1> QED
  BY <1>1, <1>2

\* osdp_pd_internal_observe_command: the PD takes what the command sets, or nothing.
LEMMA CommandMirrors ==
    ASSUME BankInv, HeardInv, AreLeds(pd_leds), cmd \in Commands, NEW v, PdCommand(v)
    PROVE  /\ AreLeds(pd_leds')
           /\ \A k : k \notin Restored(cmd) => Perm(pd_leds', k) = Perm(pd_leds, k)
           /\ \A k \in Restored(cmd) : Applied(cmd) = cmd.recs => Perm(pd_leds', k) = PermOf(cmd, k)
           /\ \A k : Applied(cmd) # cmd.recs => Perm(pd_leds', k) = Perm(pd_leds, k)
<1>1. KeepsStates(pd_leds', PdLedsAfter(cmd))
  BY CommandRefreshed
<1>2. CASE cmd.code = "LED" /\ Applied(cmd) = cmd.recs
  <2> DEFINE slots == DOMAIN pd_leds \cup Keys(cmd)
  <2>1. PdLedsAfter(cmd) = LedsAfter(pd_leds, slots, cmd.recs, Now)
    BY <1>2, KeysOf, AllOrNone DEF PdLedsAfter
  <2>2. /\ DOMAIN pd_leds' = slots /\ AreLeds(pd_leds')
        /\ \A k : PermTaken(cmd, pd_leds, pd_leds', k)
    <3>1. DOMAIN pd_leds \subseteq slots
      OBVIOUS
    <3> HIDE DEF slots
    <3> DEFINE after == PdLedsAfter(cmd)
    <3>2. after = LedsAfter(pd_leds, slots, cmd.recs, Now) /\ KeepsStates(pd_leds', after)
      BY <1>1, <2>1
    <3> HIDE DEF after
    <3>3. IsBank(pd_leds)
      BY DEF HeardInv, LedInv
    <3> QED
      BY <1>2, <3>1, <3>2, <3>3, PermApplied
  <2>3. \A k \in Restored(cmd) : k \in slots
    BY RestoredBy DEF LightsOf
  <2> QED
    BY <1>2, <2>2, <2>3 DEF PermTaken
<1>3. CASE ~(cmd.code = "LED" /\ Applied(cmd) = cmd.recs)
  <2>1. PdLedsAfter(cmd) = pd_leds
    BY <1>3, AllOrNone DEF PdLedsAfter
  <2>2. (\A k : Perm(pd_leds', k) = Perm(pd_leds, k)) /\ AreLeds(pd_leds')
    BY <1>1, <2>1, PermKept
  <2>3. \A k \in Restored(cmd) : Applied(cmd) # cmd.recs
    BY <1>3, RestoredBy
  <2> QED
    BY <2>2, <2>3
<1> QED
  BY <1>2, <1>3

LEMMA MirrorInit == ReaderInit => MirrorInv
<1> SUFFICES ASSUME ReaderInit PROVE MirrorInv
  OBVIOUS
<1>1. /\ cmd = None /\ pending = None /\ rpl = NoReply /\ cache = NoCache
      /\ pd_leds = <<>> /\ acu_leds = <<>>
  BY DEF ReaderInit
<1>2. DOMAIN <<>> = {} /\ LightsOf(None) = {} /\ Restored(None) = {}
  BY DEF LightsOf, Restored, None
<1>3. TurnInv
  BY <1>1 DEF TurnInv
<1>4. AreLeds(pd_leds) /\ AreLeds(acu_leds)
  BY <1>1, <1>2 DEF AreLeds
<1>5. ASSUME NEW k PROVE LightInv(k)
  <2>1. Agree(k)
    BY <1>1 DEF Agree
  <2> QED
    BY <1>1, <1>2, <2>1 DEF LightInv, NoCache
<1> QED
  BY <1>3, <1>4, <1>5 DEF MirrorInv

LEMMA TurnStep ==
    ASSUME TurnInv, [ReaderNext]_readerVars
    PROVE  TurnInv'
<1>1. ASSUME NEW c, AcuSend(c) PROVE TurnInv'
  BY <1>1 DEF AcuSend, TurnInv
<1>2. CASE AcuRepeat \/ AcuGiveUp
  BY <1>2 DEF AcuRepeat, AcuGiveUp, Unanswered, TurnInv
<1>3. CASE AcuTick
  <2>1. rpl.is \notin {"none", "BUSY"} => rpl # NoReply
    BY DEF NoReply
  <2> QED
    BY <1>3, <2>1 DEF AcuTick, TurnInv
<1>4. CASE PdTick \/ PdRetransmit
  BY <1>4 DEF PdTick, PdRetransmit, TurnInv
<1>5. ASSUME NEW v, PdCommand(v) PROVE TurnInv'
  BY <1>5 DEF PdCommand, TurnInv
<1>6. ASSUME NEW end, SetHandlers(end) PROVE TurnInv'
  BY <1>6 DEF SetHandlers, TurnInv
<1>7. CASE Lose \/ Clock \/ UNCHANGED readerVars
  BY <1>7 DEF Lose, Clock, readerVars, TurnInv
<1> QED
  BY <1>1, <1>2, <1>3, <1>4, <1>5, <1>6, <1>7 DEF ReaderNext

\* Steps that touch neither the banks' states nor the command under way.
LEMMA IdleKeepsMirror ==
    ASSUME MirrorInv, TurnInv', KeepsStates(acu_leds', acu_leds), KeepsStates(pd_leds', pd_leds),
           pending' = pending, diverged' = diverged,
           cache' = cache,
           rpl'.applied => rpl.applied \/ (pending = cache.cmd /\ cache.rpl.applied)
    PROVE  MirrorInv'
<1>1. /\ AreLeds(acu_leds') /\ AreLeds(pd_leds')
      /\ \A k : Perm(acu_leds', k) = Perm(acu_leds, k)
      /\ \A k : NoSlot(acu_leds', k) <=> NoSlot(acu_leds, k)
      /\ \A k : Perm(pd_leds', k) = Perm(pd_leds, k)
  BY PermKept DEF MirrorInv
<1>2. ASSUME NEW k PROVE LightInv(k)'
  <2>1. LightInv(k)
    BY DEF MirrorInv
  <2> QED
    BY <1>1, <2>1 DEF LightInv, Agree
<1> QED
  BY <1>1, <1>2 DEF MirrorInv

LEMMA ObserveKeepsMirror ==
    ASSUME HeardInv, MirrorInv, TurnInv', NEW c \in Commands, AcuObserve(c), pd_leds' = pd_leds,
           pending' = c, diverged' = diverged,
           \A k : k \notin diverged /\ k \notin LightsOf(c) => Agree(k),
           \A k : AcuDecodes(c) /\ k \notin diverged /\ k \notin Restored(c) => Agree(k),
           cache' = cache,
           \A k \in Restored(c) : rpl'.applied => Perm(pd_leds, k) = PermOf(c, k)
    PROVE  MirrorInv'
<1>1. /\ AreLeds(acu_leds')
      /\ \A k : k \notin Restored(c) /\ Agree(k) => Agree(k)'
      /\ \A k \in Restored(c) : AcuDecodes(c) =>
                Perm(acu_leds', k) = PermOf(c, k) \/ NoSlot(acu_leds', k)
  BY ObserveMirrors DEF MirrorInv
<1>2. ASSUME NEW k PROVE LightInv(k)'
  <2>1. k \notin LightsOf(c) => k \notin Restored(c)
    BY RestoredBy
  <2>2. k \notin diverged /\ k \notin LightsOf(c) => Agree(k)'
    BY <1>1, <2>1
  <2>3. AcuDecodes(c) /\ k \notin Restored(c) /\ k \notin diverged => Agree(k)'
    BY <1>1
  <2>4. k \in Restored(cache.cmd) /\ cache.rpl.applied => Perm(pd_leds, k) = PermOf(cache.cmd, k)
    BY DEF MirrorInv, LightInv
  <2> QED
    BY <1>1, <2>2, <2>3, <2>4 DEF LightInv
<1> QED
  BY <1>1, <1>2 DEF MirrorInv

LEMMA MirrorStep ==
    ASSUME LineInv, BankInv, HeardInv, MirrorInv, [ReaderNext]_readerVars
    PROVE  MirrorInv'
<1>0. TurnInv /\ TurnInv' /\ \A k : LightInv(k)
  BY TurnStep DEF MirrorInv
<1>a. /\ LightsOf(None) = {} /\ Restored(None) = {} /\ ~NoReply.applied
      /\ \A bank : KeepsStates(bank, bank)
  BY DEF LightsOf, Restored, None, NoReply, KeepsStates
<1>1. ASSUME NEW c \in Commands, AcuSend(c) PROVE MirrorInv'
  <2>1. /\ pending = None /\ pending' = c /\ cache' = cache /\ rpl' = rpl /\ AcuObserve(c)
        /\ pd_leds' = pd_leds /\ diverged' = diverged
    BY <1>1 DEF AcuSend, pdVars
  <2>2. rpl = NoReply
    BY <1>0, <2>1 DEF TurnInv
  <2>3. \A k : k \notin diverged => Agree(k)
    BY <1>0, <1>a, <2>1 DEF LightInv
  <2> QED
    BY <1>0, <1>a, <1>1, <2>1, <2>2, <2>3, ObserveKeepsMirror
<1>2. CASE AcuRepeat
  <2>1. /\ pending' = pending /\ cache' = cache /\ rpl' = rpl /\ AcuObserve(pending)
        /\ pd_leds' = pd_leds /\ diverged' = diverged /\ pending # None
    BY <1>2 DEF AcuRepeat, Unanswered, pdVars
  <2>2. pending \in Commands
    BY <2>1 DEF LineInv
  <2>3. \A k : k \notin diverged /\ k \notin LightsOf(pending) => Agree(k)
    BY <1>0 DEF LightInv
  <2>4. \A k : AcuDecodes(pending) /\ k \notin diverged /\ k \notin Restored(pending) => Agree(k)
    BY <1>0 DEF LightInv
  <2>5. \A k \in Restored(pending) : rpl'.applied => Perm(pd_leds, k) = PermOf(pending, k)
    BY <1>0, <2>1 DEF LightInv
  <2> QED
    BY <1>0, <2>1, <2>2, <2>3, <2>4, <2>5, ObserveKeepsMirror
<1>3. CASE AcuGiveUp
  <2>1. /\ pending' = None /\ diverged' = diverged \cup LightsOf(pending)
        /\ acu_leds' = acu_leds /\ pd_leds' = pd_leds /\ cache' = cache
    BY <1>3 DEF AcuGiveUp, pdVars, acuVars
  <2>2. ASSUME NEW k PROVE LightInv(k)'
    <3>1. k \notin diverged' => Agree(k)
      BY <1>0, <2>1 DEF LightInv
    <3> QED
      BY <1>0, <1>a, <2>1, <3>1 DEF LightInv, Agree
  <2> QED
    BY <1>0, <2>1, <2>2 DEF MirrorInv
<1>4. CASE AcuTick
  <2>1. /\ rpl' = NoReply /\ acu_leds' = LedRefresh("acu", acu_leds)
        /\ pd_leds' = pd_leds /\ cache' = cache
    BY <1>4 DEF AcuTick, pdVars
  <2>2. KeepsStates(acu_leds', acu_leds) /\ KeepsStates(pd_leds', pd_leds)
    BY <1>a, <2>1, LedRefreshed DEF HeardInv, LedInv
  <2>3. CASE pending' = pending /\ diverged' = diverged
    BY <1>0, <1>a, <2>1, <2>2, <2>3, IdleKeepsMirror
  <2>4. CASE /\ rpl.is \notin {"none", "BUSY"} /\ pending' = None
             /\ diverged' = IF rpl.applied /\ AcuDecodes(pending)
                            THEN diverged \ Restored(pending)
                            ELSE diverged \cup LightsOf(pending)
    <3>1. /\ AreLeds(acu_leds') /\ AreLeds(pd_leds')
          /\ \A k : Perm(acu_leds', k) = Perm(acu_leds, k)
          /\ \A k : NoSlot(acu_leds', k) <=> NoSlot(acu_leds, k)
      BY <2>1, <2>2, PermKept DEF MirrorInv
    <3>2. ASSUME NEW k, k \notin diverged' PROVE Agree(k)
      <4>1. CASE rpl.applied /\ AcuDecodes(pending) /\ k \in Restored(pending)
        <5>1. Perm(acu_leds, k) = PermOf(pending, k) \/ NoSlot(acu_leds, k)
          BY <1>0, <4>1, RestoredBy DEF LightInv
        <5>2. Perm(pd_leds, k) = PermOf(pending, k)
          BY <1>0, <4>1 DEF LightInv
        <5> QED
          BY <5>1, <5>2 DEF Agree
      <4>2. CASE rpl.applied /\ AcuDecodes(pending) /\ k \notin Restored(pending)
        <5>1. k \notin diverged
          BY <2>4, <3>2, <4>2
        <5> QED
          BY <1>0, <4>2, <5>1 DEF LightInv
      <4>3. CASE ~(rpl.applied /\ AcuDecodes(pending))
        <5>1. k \notin diverged /\ k \notin LightsOf(pending)
          BY <2>4, <3>2, <4>3
        <5> QED
          BY <1>0, <5>1 DEF LightInv
      <4> QED
        BY <4>1, <4>2, <4>3
    <3>3. ASSUME NEW k PROVE LightInv(k)'
      <4>1. k \notin diverged' => Agree(k)'
        BY <2>1, <3>1, <3>2 DEF Agree
      <4> QED
        BY <1>0, <1>a, <2>1, <2>2, <2>4, <4>1, PermKept DEF LightInv
    <3> QED
      BY <1>0, <3>1, <3>3 DEF MirrorInv
  <2> QED
    BY <1>4, <2>3, <2>4 DEF AcuTick
<1>5. CASE PdTick \/ PdRetransmit
  <2>1. /\ pd_leds' = LedRefresh("pd", pd_leds) /\ acu_leds' = acu_leds
        /\ pending' = pending /\ diverged' = diverged /\ cache' = cache
        /\ rpl' \in {rpl, NoReply} \/ (rpl' = cache.rpl /\ pending = cache.cmd)
    BY <1>0, <1>5 DEF PdTick, PdRetransmit, IsRetransmit, PdRefresh, Sent, acuVars, TurnInv
  <2>2. KeepsStates(acu_leds', acu_leds) /\ KeepsStates(pd_leds', pd_leds)
    BY <1>a, <2>1, LedRefreshed DEF HeardInv, LedInv
  <2> QED
    BY <1>0, <1>a, <2>1, <2>2, IdleKeepsMirror
<1>6. ASSUME NEW v, PdCommand(v) PROVE MirrorInv'
  <2> DEFINE r == DispatchReply(cmd, v)
  <2>1. /\ cmd # None /\ acu_leds' = acu_leds /\ pending' = pending /\ diverged' = diverged
        /\ rpl' \in {r, NoReply}
        /\ cache' = NoCache \/ (cache'.cmd = cmd /\ cache'.rpl = r)
    BY <1>6 DEF PdCommand, Sent, acuVars
  <2>2. cmd \in Commands /\ cmd = pending
    BY <1>0, <2>1 DEF LineInv, TurnInv
  <2>3. r.applied => Applied(cmd) = cmd.recs
    <3>1. r.applied = (Observed(cmd) = "OK")
      BY DEF DispatchReply
    <3> HIDE DEF r
    <3> QED
      BY <3>1 DEF Observed
  <2>4. /\ AreLeds(pd_leds')
        /\ \A k : k \notin Restored(cmd) => Perm(pd_leds', k) = Perm(pd_leds, k)
        /\ \A k \in Restored(cmd) : Applied(cmd) = cmd.recs => Perm(pd_leds', k) = PermOf(cmd, k)
    BY <1>6, <2>2, CommandMirrors DEF MirrorInv
  <2> HIDE DEF r
  <2>5. ASSUME NEW k PROVE LightInv(k)'
    <3>1. k \notin Restored(pending) /\ Agree(k) => Agree(k)'
      BY <2>1, <2>2, <2>4 DEF Agree
    <3>2. k \notin LightsOf(pending) => k \notin Restored(pending)
      BY RestoredBy
    <3>3. /\ k \in Restored(pending) /\ rpl'.applied => Perm(pd_leds', k) = PermOf(pending, k)
          /\ k \in Restored(cache'.cmd) /\ cache'.rpl.applied =>
                Perm(pd_leds', k) = PermOf(cache'.cmd, k)
      BY <1>a, <2>1, <2>2, <2>3, <2>4 DEF NoCache
    <3>4. LightInv(k)
      BY <1>0
    <3> QED
      BY <2>1, <3>1, <3>2, <3>3, <3>4 DEF LightInv
  <2> QED
    BY <1>0, <2>1, <2>4, <2>5 DEF MirrorInv
<1>7. ASSUME NEW end, SetHandlers(end) PROVE MirrorInv'
  <2>1. /\ acu_leds' = acu_leds /\ pd_leds' = pd_leds /\ pending' = pending
        /\ diverged' = diverged /\ cache' = cache /\ rpl' = rpl
    BY <1>7 DEF SetHandlers, pdVars, acuVars
  <2> QED
    BY <1>0, <1>a, <2>1, IdleKeepsMirror
<1>8. CASE Lose \/ Clock \/ UNCHANGED readerVars
  <2>1. /\ acu_leds' = acu_leds /\ pd_leds' = pd_leds /\ pending' = pending
        /\ diverged' = diverged /\ cache' = cache /\ rpl' \in {rpl, NoReply}
    BY <1>8 DEF Lose, Clock, readerVars, pdVars, acuVars
  <2> QED
    BY <1>0, <1>a, <2>1, IdleKeepsMirror
<1> QED
  BY <1>1, <1>2, <1>3, <1>4, <1>5, <1>6, <1>7, <1>8 DEF ReaderNext

\* Between commands the mirror the controller fills as it sends (acu_observe_led) has
\* the permanent state of the reader's lights, whatever was lost, repeated or
\* answered osdp_BUSY, except where the application knows that they parted: on a
\* command given up, refused or too long for the mirror.
THEOREM MirrorFollowsReader == ReaderSpec => []MirrorAgrees
<1>1. MirrorInv => MirrorAgrees
  <2> SUFFICES ASSUME MirrorInv, pending = None,
                      NEW k \in (DOMAIN pd_leds \cap DOMAIN acu_leds) \ diverged
               PROVE  acu_leds[k].state.permanent = pd_leds[k].state.permanent
    BY DEF MirrorAgrees
  <2>1. LightsOf(pending) = {}
    BY DEF LightsOf, None
  <2>2. LightInv(k)
    BY DEF MirrorInv
  <2>3. Agree(k)
    BY <2>1, <2>2 DEF LightInv
  <2>4. Perm(acu_leds, k) = acu_leds[k].state.permanent /\ Perm(pd_leds, k) = pd_leds[k].state.permanent
    BY DEF Perm, LedSlot
  <2> QED
    BY <2>3, <2>4 DEF Agree, NoSlot
<1> QED
  BY <1>1, LineInit, LineStep, HeardInit, HeardStep, MirrorInit, MirrorStep, PTL DEF ReaderSpec
=============================================================================
