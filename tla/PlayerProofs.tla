---------------------------- MODULE PlayerProofs -----------------------------
(***************************************************************************)
(* What is proved of the two conversations of a player, and of both        *)
(* together: for any fields, ages and batches the state is as new as what  *)
(* has been received; for any items, orders and windows the pages a player *)
(* is given tile its queue, and one that starts is on the clock.           *)
(***************************************************************************)
EXTENDS Player, FiniteSetTheorems, FunctionTheorems, WellFoundedInduction, TLAPS

----------------------------------------------------------------------------
(* Natural numbers *)

LEMMA LeastNatural ==
    ASSUME NEW T, T \subseteq Nat, T # {}
    PROVE  \E x \in T : \A y \in T : x <= y
<1>1. IsWellFoundedOn({ss \in Nat \X Nat : ss[1] < ss[2]}, Nat)
  BY NatLessThanWellFounded DEF OpToRel
<1>2. PICK x \in T : \A y \in T : ~(<<y, x>> \in {ss \in Nat \X Nat : ss[1] < ss[2]})
  BY <1>1, WFMin
<1>3. \A y \in T : ~(y < x)
  BY <1>2
<1>4. QED
  BY <1>3

\* Induction up to n, for what a set says.
LEMMA UpTo ==
    ASSUME NEW n \in Nat, NEW T, 0 \in T, \A k \in 1..n : k - 1 \in T => k \in T
    PROVE  0..n \subseteq T
<1> DEFINE Missing == {k \in 0..n : k \notin T}
<1>1. SUFFICES ASSUME Missing # {} PROVE FALSE
  OBVIOUS
<1>2. PICK k \in Missing : \A m \in Missing : k <= m
  <2>1. Missing \subseteq Nat /\ Missing # {}
    BY <1>1
  <2> HIDE DEF Missing
  <2>2. QED
    BY <2>1, LeastNatural
<1>3. k \in 1..n /\ k - 1 \in 0..n
  BY <1>2
<1>4. k - 1 \in T
  BY <1>2, <1>3
<1>5. QED
  BY <1>2, <1>3, <1>4

Iterates(f, S, e, n, step) ==
    f \in [0..n -> S] /\ f[0] = e /\ \A k \in 1..n : f[k] = step[k][f[k - 1]]

\* A function defined from 0 up by steps that stay within S exists, and stays within S.
LEMMA StepByStep ==
    ASSUME NEW S, NEW e \in S, NEW n \in Nat, NEW step \in [1..n -> [S -> S]]
    PROVE  \E f : Iterates(f, S, e, n, step)
<1> DEFINE Good(m) == \E f : Iterates(f, S, e, m, step)
           T == {m \in 0..n : Good(m)}
<1>1. 0 \in T
  <2> DEFINE f == [k \in 0..0 |-> e]
  <2>1. f \in [0..0 -> S] /\ f[0] = e
    OBVIOUS
  <2> HIDE DEF f
  <2>2. Iterates(f, S, e, 0, step)
    BY <2>1 DEF Iterates
  <2>3. QED
    BY <2>2
<1>2. ASSUME NEW m \in 1..n, m - 1 \in T
      PROVE  m \in T
  <2>0. PICK g : Iterates(g, S, e, m - 1, step)
    BY <1>2
  <2>1. /\ g \in [0..m - 1 -> S]
        /\ g[0] = e /\ \A k \in 1..m - 1 : g[k] = step[k][g[k - 1]]
    BY <2>0 DEF Iterates
  <2> DEFINE f == [k \in 0..m |-> IF k = m THEN step[m][g[m - 1]] ELSE g[k]]
  <2>2. /\ step[m] \in [S -> S] /\ g[m - 1] \in S
        /\ \A k \in 0..m : k # m => k \in 0..m - 1
    BY <1>2, <2>1
  <2>3. f \in [0..m -> S] /\ f[0] = e
    BY <2>1, <2>2
  <2>4. \A k \in 1..m : f[k] = step[k][f[k - 1]]
    BY <2>1, <2>2
  <2> HIDE DEF f
  <2>5. Iterates(f, S, e, m, step)
    BY <2>3, <2>4 DEF Iterates
  <2>6. Good(m)
    BY <2>5
  <2> HIDE DEF Good
  <2>7. QED
    BY <2>6
<1> HIDE DEF Good
<1>3. 0..n \subseteq T
  BY <1>1, <1>2, UpTo
<1>4. Good(n)
  BY <1>3
<1>5. QED
  BY <1>4 DEF Good

----------------------------------------------------------------------------
(* The events a player reports *)

\* What field f shows by the log l and the state st.
ShowsNewest(l, st, f) ==
    \/ st[f] = 0 /\ Shown(l, f) = {}
    \/ \E i \in Shown(l, f) : st[f] = l[i] /\ \A j \in Shown(l, f) : j <= i

\* What is recorded is never behind what was received: the highest number received is that
\* of an event in the log, and a field shows the last event that led the log and reports it.
Sound(s) ==
    /\ IsInjective(s.log)
    /\ \A f \in Fields : s.state[f] \in {0} \cup Range(s.log)
    /\ \A n \in Range(s.log) : made[n].sequence <= s.last
    /\ s.last # 0 => \E n \in Range(s.log) : made[n].sequence = s.last
    /\ \A f \in Fields : ShowsNewest(s.log, s.state, f)

Records == [log : Seq(DOMAIN made), state : [Fields -> Nat], last : 0..MaxEvents]
SoundRecords == {s \in Records : Sound(s)}

OnRecord == [log |-> log, state |-> state, last |-> lastSequence]

TelemetryIInv ==
    /\ TelemetryTypeOK
    /\ counter <= Len(made)
    /\ OnRecord \in SoundRecords

LEMMA MadeEvents ==
    ASSUME made \in Seq(Events), NEW n \in DOMAIN made
    PROVE  made[n].sequence \in Nat \ {0} /\ made[n].sequence <= MaxEvents /\ n \in Nat \ {0}
<1>1. made[n] \in Events /\ n \in Nat \ {0}
  OBVIOUS
<1>2. QED
  BY <1>1, TelemetryAssumption DEF Events

LEMMA RangeOfAppend ==
    ASSUME NEW S, NEW q \in Seq(S), NEW n \in S
    PROVE  /\ Append(q, n) \in Seq(S)
           /\ Range(Append(q, n)) = Range(q) \cup {n}
           /\ IsInjective(q) /\ n \notin Range(q) => IsInjective(Append(q, n))
<1> DEFINE a == Append(q, n)
<1>1. /\ DOMAIN q = 1..Len(q) /\ Len(q) \in Nat
      /\ a \in Seq(S) /\ DOMAIN a = 1..Len(q) + 1 /\ a[Len(q) + 1] = n
      /\ \A k \in 1..Len(q) : a[k] = q[k]
  OBVIOUS
<1> HIDE DEF a
<1>2. \A k \in DOMAIN a : k \in DOMAIN q \/ k = Len(q) + 1
  BY <1>1
<1>3. Range(a) = Range(q) \cup {n}
  <2>1. Range(a) \subseteq Range(q) \cup {n}
    BY <1>1, <1>2 DEF Range
  <2>2. Range(q) \subseteq Range(a)
    BY <1>1 DEF Range
  <2>3. n \in Range(a)
    BY <1>1 DEF Range
  <2>4. QED
    BY <2>1, <2>2, <2>3
<1>4. ASSUME IsInjective(q), n \notin Range(q)
      PROVE  IsInjective(a)
  <2>1. \A k \in DOMAIN q : a[k] = q[k] /\ a[k] # n
    BY <1>1, <1>4 DEF Range
  <2>2. \A j, k \in DOMAIN q : a[j] = a[k] => j = k
    BY <1>4, <2>1 DEF IsInjective
  <2>3. QED
    BY <1>1, <1>2, <2>1, <2>2 DEF IsInjective
<1>5. QED
  BY <1>1, <1>3, <1>4 DEF a

\* The events recorded before keep their lead, and their lack of one, when another is added;
\* that leads if its number is higher than all.
LEMMA ShownAfterAppend ==
    ASSUME NEW l \in Seq(DOMAIN made), NEW n \in DOMAIN made, NEW f
    PROVE  LET w == Append(l, n)
               leads == \A m \in Range(l) : made[m].sequence < made[n].sequence
           IN  Shown(w, f) = Shown(l, f) \cup
                    (IF leads /\ f \in made[n].reports THEN {Len(l) + 1} ELSE {})
<1> DEFINE w == Append(l, n)
           leads == \A m \in Range(l) : made[m].sequence < made[n].sequence
<1>1. /\ Len(l) \in Nat /\ DOMAIN l = 1..Len(l) /\ DOMAIN w = 1..Len(l) + 1
      /\ w[Len(l) + 1] = n /\ \A k \in 1..Len(l) : w[k] = l[k]
  OBVIOUS
<1> HIDE DEF w
<1>2. ASSUME NEW i \in 1..Len(l) PROVE Leads(w, i) <=> Leads(l, i)
  <2>1. \A j \in 1..i - 1 : j \in 1..Len(l)
    BY <1>1
  <2>2. QED
    BY <1>1, <2>1 DEF Leads
<1>3. Leads(w, Len(l) + 1) <=> leads
  <2>1. 1..(Len(l) + 1) - 1 = 1..Len(l)
    BY <1>1
  <2>2. Leads(w, Len(l) + 1) <=> \A j \in 1..Len(l) : made[l[j]].sequence < made[n].sequence
    BY <1>1, <2>1 DEF Leads
  <2>3. Range(l) = {l[j] : j \in 1..Len(l)}
    BY <1>1 DEF Range
  <2>4. QED
    BY <2>2, <2>3
<1> HIDE DEF leads
<1>4. \A i \in 1..Len(l) : i \in Shown(w, f) <=> i \in Shown(l, f)
  BY <1>1, <1>2 DEF Shown
<1>5. Len(l) + 1 \in Shown(w, f) <=> leads /\ f \in made[n].reports
  BY <1>1, <1>3 DEF Shown
<1>6. Shown(l, f) \subseteq 1..Len(l) /\ Shown(w, f) \subseteq 1..Len(l) + 1
  BY <1>1 DEF Shown
<1>7. \A i \in 1..Len(l) + 1 : i \in 1..Len(l) \/ i = Len(l) + 1
  BY <1>1
<1>8. Shown(w, f) = Shown(l, f) \cup (IF leads /\ f \in made[n].reports THEN {Len(l) + 1} ELSE {})
  BY <1>4, <1>5, <1>6, <1>7
<1>9. QED
  BY <1>8 DEF w, leads

\* An event that was not known is recorded soundly.
LEMMA WriteIsSound ==
    ASSUME made \in Seq(Events), NEW s \in SoundRecords, NEW n \in DOMAIN made, n \notin Range(s.log)
    PROVE  Write(s, n) \in SoundRecords
<1> DEFINE w == Write(s, n)
           size == Len(s.log)
<1>1. /\ s \in Records /\ Sound(s) /\ s.log \in Seq(DOMAIN made)
      /\ s.state \in [Fields -> Nat] /\ s.last \in Nat
  BY DEF SoundRecords, Records
<1>2. /\ w.log = Append(s.log, n)
      /\ w.state = IF Overtaken(s, n) THEN s.state
                   ELSE [f \in Fields |-> IF f \in made[n].reports THEN n ELSE s.state[f]]
      /\ w.last = IF Overtaken(s, n) THEN s.last ELSE made[n].sequence
      /\ w = [log |-> w.log, state |-> w.state, last |-> w.last]
  BY DEF Write
<1> HIDE DEF w
<1>3. w.log \in Seq(DOMAIN made) /\ Range(w.log) = Range(s.log) \cup {n} /\ IsInjective(w.log)
  BY <1>1, <1>2, RangeOfAppend DEF Sound
<1>4. \A m \in DOMAIN made : made[m].sequence \in Nat \ {0} /\ made[m].sequence <= MaxEvents
                             /\ m \in Nat \ {0}
  BY MadeEvents
<1>5. Range(s.log) \subseteq DOMAIN made
  BY <1>1 DEF Range
<1>6. w \in Records
  <2>1. w.last \in 0..MaxEvents
    BY <1>1, <1>2, <1>4, TelemetryAssumption DEF Records
  <2>2. w.state \in [Fields -> Nat]
    BY <1>1, <1>2, <1>4
  <2>3. QED
    BY <1>2, <1>3, <2>1, <2>2 DEF Records
<1>7. \A f \in Fields : s.state[f] \in {0} \cup Range(s.log)
  BY <1>1 DEF Sound
\* It is overtaken exactly if it does not lead the log.
<1>8. (\A m \in Range(s.log) : made[m].sequence < made[n].sequence) <=> ~Overtaken(s, n)
  <2>1. \A m \in Range(s.log) : made[m].sequence <= s.last /\ made[m].sequence \in Nat
    BY <1>1, <1>4, <1>5 DEF Sound
  <2>2. s.last = 0 \/ \E m \in Range(s.log) : made[m].sequence = s.last
    BY <1>1 DEF Sound
  <2>3. made[n].sequence \in Nat \ {0}
    BY <1>4
  <2>4. QED
    BY <1>1, <2>1, <2>2, <2>3 DEF Overtaken
<1>9. \A f : Shown(w.log, f) = Shown(s.log, f) \cup
                (IF ~Overtaken(s, n) /\ f \in made[n].reports THEN {size + 1} ELSE {})
  BY <1>1, <1>2, <1>8, ShownAfterAppend
<1>10. /\ size \in Nat /\ w.log[size + 1] = n /\ \A i \in 1..size : w.log[i] = s.log[i]
       /\ \A f : Shown(s.log, f) \subseteq 1..size
  BY <1>1, <1>2 DEF Shown
<1> HIDE DEF size
<1>11. ASSUME NEW f \in Fields, Overtaken(s, n) \/ f \notin made[n].reports
       PROVE  ShowsNewest(w.log, w.state, f)
  <2>1. w.state[f] = s.state[f] /\ Shown(w.log, f) = Shown(s.log, f)
    BY <1>2, <1>9, <1>11
  <2>2. ShowsNewest(s.log, s.state, f)
    BY <1>1 DEF Sound
  <2>3. QED
    BY <1>10, <2>1, <2>2 DEF ShowsNewest
<1>12. ASSUME NEW f \in Fields, ~Overtaken(s, n), f \in made[n].reports
       PROVE  ShowsNewest(w.log, w.state, f)
  <2>1. w.state[f] = n /\ Shown(w.log, f) = Shown(s.log, f) \cup {size + 1}
    BY <1>2, <1>9, <1>12
  <2>2. \A j \in Shown(w.log, f) : j <= size + 1
    BY <1>10, <2>1
  <2>3. QED
    BY <1>10, <2>1, <2>2 DEF ShowsNewest
<1>13. CASE Overtaken(s, n)
  <2>1. w.state = s.state /\ w.last = s.last /\ made[n].sequence <= s.last
    BY <1>2, <1>13 DEF Overtaken
  <2>2. Sound(w)
    BY <1>1, <1>3, <1>7, <1>11, <1>13, <2>1 DEF Sound
  <2>3. QED
    BY <1>6, <2>2 DEF SoundRecords, w
<1>14. CASE ~Overtaken(s, n)
  <2>1. w.last = made[n].sequence /\ s.last < made[n].sequence
    BY <1>1, <1>2, <1>4, <1>14 DEF Overtaken
  <2>2. \A f \in Fields : w.state[f] = IF f \in made[n].reports THEN n ELSE s.state[f]
    BY <1>2, <1>14
  <2>3. \A m \in Range(w.log) : made[m].sequence <= w.last
    BY <1>1, <1>3, <1>4, <1>5, <2>1 DEF Sound
  <2>4. \A f \in Fields : w.state[f] \in {0} \cup Range(w.log)
    BY <1>3, <1>7, <2>2
  <2>5. \A f \in Fields : ShowsNewest(w.log, w.state, f)
    BY <1>11, <1>12, <1>14
  <2>6. Sound(w)
    BY <1>3, <2>1, <2>3, <2>4, <2>5 DEF Sound
  <2>7. QED
    BY <1>6, <2>6 DEF SoundRecords, w
<1>15. QED
  BY <1>13, <1>14

\* A batch is recorded soundly, however its events are repeated and ordered.
LEMMA BatchIsSound ==
    ASSUME made \in Seq(Events), OnRecord \in SoundRecords, NEW batch \in Batches
    PROVE  Recorded(batch)[Len(batch)] \in SoundRecords
<1> DEFINE size == Len(batch)
           start == OnRecord
           taking == [k \in 1..size |-> [s \in SoundRecords |-> Take(s, batch[k])]]
           Steps(f) == f = [k \in 0..size |-> IF k = 0 THEN start ELSE Take(f[k - 1], batch[k])]
           R == Recorded(batch)
<1>1. size \in Nat /\ \A k \in 1..size : batch[k] \in DOMAIN made
  BY TelemetryAssumption DEF Batches
<1>2. \A s \in SoundRecords, k \in 1..size : Take(s, batch[k]) \in SoundRecords
  BY <1>1, WriteIsSound DEF Take
<1>3. taking \in [1..size -> [SoundRecords -> SoundRecords]]
  BY <1>2
<1>4. \A k \in 1..size, s \in SoundRecords : taking[k][s] = Take(s, batch[k])
  OBVIOUS
<1>5. R = (CHOOSE f : Steps(f)) /\ start \in SoundRecords
  BY DEF Recorded, OnRecord
<1> HIDE DEF taking, start, R, size
<1>6. \E g : Iterates(g, SoundRecords, start, size, taking)
  BY <1>1, <1>3, <1>5, StepByStep
<1>7. PICK g : /\ g \in [0..size -> SoundRecords]
                /\ g[0] = start /\ \A k \in 1..size : g[k] = taking[k][g[k - 1]]
  BY <1>6 DEF Iterates
<1>8. \A k \in 0..size : g[k] = IF k = 0 THEN start ELSE Take(g[k - 1], batch[k])
  <2> SUFFICES ASSUME NEW k \in 0..size
               PROVE  g[k] = IF k = 0 THEN start ELSE Take(g[k - 1], batch[k])
    OBVIOUS
  <2>2. CASE k = 0
    BY <1>7, <2>2
  <2>3. CASE k # 0
    <3>1. k \in 1..size /\ k - 1 \in 0..size
      BY <1>1, <2>3
    <3>2. g[k - 1] \in SoundRecords
      BY <1>7, <3>1
    <3>3. QED
      BY <1>4, <1>7, <2>3, <3>1, <3>2
  <2>4. QED
    BY <2>2, <2>3
<1>9. Steps(g)
  BY <1>7, <1>8
<1>10. Steps(R)
  BY <1>5, <1>9
<1>11. \A k \in 0..size : R[k] = IF k = 0 THEN start ELSE Take(R[k - 1], batch[k])
  BY <1>10
<1> DEFINE T == {k \in 0..size : R[k] \in SoundRecords}
<1>12. 0 \in T
  BY <1>1, <1>11 DEF start
<1>13. \A k \in 1..size : k - 1 \in T => k \in T
  BY <1>1, <1>2, <1>11
<1> HIDE DEF T
<1>14. size \in T
  <2>1. 0..size \subseteq T
    BY <1>1, <1>12, <1>13, UpTo
  <2>2. QED
    BY <1>1, <2>1
<1>15. QED
  BY <1>14 DEF T, R, size

\* What the player makes meanwhile leaves what is recorded sound.
LEMMA StaysSound ==
    ASSUME TelemetryIInv, UNCHANGED <<log, state, lastSequence>>,
           made' \in Seq(Events), Len(made) <= Len(made'),
           \A n \in DOMAIN made : made'[n] = made[n]
    PROVE  (OnRecord \in SoundRecords)'
<1>1. /\ made \in Seq(Events) /\ DOMAIN made = 1..Len(made) /\ Len(made) \in Nat
      /\ DOMAIN made' = 1..Len(made') /\ Len(made') \in Nat
  BY DEF TelemetryIInv, TelemetryTypeOK
<1>2. DOMAIN made \subseteq DOMAIN made'
  BY <1>1
<1>3. /\ OnRecord' = OnRecord /\ OnRecord \in Records /\ Sound(OnRecord)
      /\ OnRecord.log = log /\ OnRecord.state = state /\ OnRecord.last = lastSequence
  BY DEF TelemetryIInv, OnRecord, SoundRecords
<1>4. log \in Seq(DOMAIN made) /\ state \in [Fields -> Nat] /\ lastSequence \in 0..MaxEvents
  BY <1>3 DEF Records
<1>5. log' \in Seq(DOMAIN made') /\ Range(log) \subseteq DOMAIN made /\ Range(log') = Range(log)
  BY <1>1, <1>2, <1>4 DEF Range
<1>6. (OnRecord \in Records)'
  BY <1>4, <1>5 DEF Records, OnRecord
<1>7. \A n \in Range(log) : made'[n] = made[n]
  BY <1>5
<1>8. \A f : Shown(log, f)' = Shown(log, f)
  <2>1. \A i \in DOMAIN log : made'[log[i]] = made[log[i]]
    BY <1>7 DEF Range
  <2>2. ASSUME NEW i \in DOMAIN log PROVE Leads(log, i)' <=> Leads(log, i)
    <3>1. \A j \in 1..i - 1 : j \in DOMAIN log
      BY <1>4
    <3>2. QED
      BY <2>1, <3>1 DEF Leads
  <2>3. QED
    BY <2>1, <2>2 DEF Shown
<1>9. Sound(OnRecord)'
  <2>1. /\ OnRecord'.log = log /\ OnRecord'.state = state /\ OnRecord'.last = lastSequence
    BY <1>3
  <2>2. /\ IsInjective(log)
        /\ \A f \in Fields : state[f] \in {0} \cup Range(log)
        /\ \A n \in Range(log) : made'[n].sequence <= lastSequence
        /\ lastSequence # 0 => \E n \in Range(log) : made'[n].sequence = lastSequence
    BY <1>3, <1>7 DEF Sound
  <2>3. \A f \in Fields : ShowsNewest(log, state, f)'
    BY <1>3, <1>8 DEF Sound, ShowsNewest
  <2>4. QED
    BY <2>1, <2>2, <2>3 DEF Sound, ShowsNewest
<1>10. QED
  BY <1>6, <1>9 DEF SoundRecords

\* What is on record has its type.
LEMMA RecordTyped ==
    ASSUME OnRecord \in SoundRecords
    PROVE  /\ log \in Seq(DOMAIN made) /\ IsInjective(log)
           /\ state \in [Fields -> {0} \cup Range(log)]
           /\ lastSequence \in 0..MaxEvents
<1>1. OnRecord \in Records /\ Sound(OnRecord)
  BY DEF SoundRecords
<1>2. OnRecord.log = log /\ OnRecord.state = state /\ OnRecord.last = lastSequence
  BY DEF OnRecord
<1>3. QED
  BY <1>1, <1>2 DEF Records, Sound

LEMMA TelemetryInitInvariant == TelemetryInit => TelemetryIInv
<1> SUFFICES ASSUME TelemetryInit PROVE TelemetryIInv
  OBVIOUS
<1>1. /\ log = <<>> /\ state = [f \in Fields |-> 0] /\ lastSequence = 0 /\ made = <<>>
      /\ Range(log) = {} /\ IsInjective(log)
  BY DEF TelemetryInit, Range, IsInjective
<1>2. OnRecord \in Records /\ Sound(OnRecord)
  <2>1. OnRecord.log = log /\ OnRecord.state = state /\ OnRecord.last = lastSequence
    BY DEF OnRecord
  <2>2. OnRecord \in Records
    BY <1>1, TelemetryAssumption DEF Records, OnRecord
  <2>3. QED
    BY <1>1, <2>1, <2>2 DEF Sound, ShowsNewest, Shown
<1>3. OnRecord \in SoundRecords
  BY <1>2 DEF SoundRecords
<1>4. TelemetryTypeOK /\ counter <= Len(made)
  BY <1>3, RecordTyped, TelemetryAssumption DEF TelemetryInit, TelemetryTypeOK, Ticks
<1>5. QED
  BY <1>3, <1>4 DEF TelemetryIInv

LEMMA TelemetryNextInvariant == TelemetryIInv /\ [TelemetryNext]_telemetryVars => TelemetryIInv'
<1> SUFFICES ASSUME TelemetryIInv, [TelemetryNext]_telemetryVars PROVE TelemetryIInv'
  OBVIOUS
<1>1. /\ clock \in Ticks /\ made \in Seq(Events) /\ Len(made) <= MaxEvents /\ Len(made) \in Nat
      /\ counter \in 0..MaxEvents /\ restarts \in 0..MaxRestarts /\ counter <= Len(made)
      /\ OnRecord \in SoundRecords
  BY DEF TelemetryIInv, TelemetryTypeOK
<1> DEFINE Player ==
        /\ clock \in Ticks /\ made \in Seq(Events) /\ Len(made) <= MaxEvents
        /\ counter \in 0..MaxEvents /\ restarts \in 0..MaxRestarts /\ counter <= Len(made)
<1>2. SUFFICES Player' /\ (OnRecord \in SoundRecords)'
  <2>1. (OnRecord \in SoundRecords)' => (/\ log \in Seq(DOMAIN made) /\ IsInjective(log)
                                         /\ state \in [Fields -> {0} \cup Range(log)]
                                         /\ lastSequence \in 0..MaxEvents)'
    BY RecordTyped, PTL
  <2>2. QED
    BY <2>1 DEF TelemetryIInv, TelemetryTypeOK
<1>3. ASSUME NEW occurred \in 0..clock + Skew, NEW reports \in SUBSET Fields, Happen(occurred, reports)
      PROVE  Player' /\ (OnRecord \in SoundRecords)'
  <2> DEFINE event == [sequence |-> counter + 1, occurred |-> occurred, reports |-> reports]
  <2>1. event \in Events
    BY <1>1, <1>3, TelemetryAssumption DEF Happen, Events, Ticks
  <2>2. made' = Append(made, event) /\ UNCHANGED <<clock, restarts, log, state, lastSequence>>
        /\ counter' = counter + 1 /\ Len(made) < MaxEvents
    BY <1>3 DEF Happen
  <2> HIDE DEF event
  <2>3. /\ made' \in Seq(Events) /\ Len(made') = Len(made) + 1
        /\ \A n \in DOMAIN made : made'[n] = made[n]
    BY <1>1, <2>1, <2>2
  <2>4. (OnRecord \in SoundRecords)'
    BY <1>1, <2>2, <2>3, StaysSound
  <2>5. Player'
    BY <1>1, <2>2, <2>3, TelemetryAssumption
  <2>6. QED
    BY <2>4, <2>5
<1>4. CASE RestartPlayer
  <2>1. Player'
    BY <1>1, <1>4, TelemetryAssumption DEF RestartPlayer
  <2>2. QED
    BY <1>1, <1>4, <2>1, StaysSound DEF RestartPlayer
<1>5. CASE Pass
  <2>1. Player'
    BY <1>1, <1>5, TelemetryAssumption DEF Pass, Ticks
  <2>2. QED
    BY <1>1, <1>5, <2>1, StaysSound DEF Pass
<1>6. ASSUME NEW batch \in Batches, RecordBatch(batch)
      PROVE  Player' /\ (OnRecord \in SoundRecords)'
  <2> DEFINE end == Recorded(batch)[Len(batch)]
  <2>1. end \in SoundRecords
    BY <1>1, BatchIsSound
  <2>2. /\ log' = end.log /\ state' = end.state /\ lastSequence' = end.last
        /\ UNCHANGED <<clock, made, counter, restarts>>
    BY <1>6 DEF RecordBatch
  <2> HIDE DEF end
  <2>3. OnRecord' = end
    BY <2>1, <2>2 DEF OnRecord, SoundRecords, Records
  <2>4. SoundRecords' = SoundRecords
    BY <2>2 DEF SoundRecords, Records, Sound, ShowsNewest, Shown, Leads
  <2>5. Player'
    BY <1>1, <2>2
  <2>6. QED
    BY <2>1, <2>3, <2>4, <2>5
<1>7. CASE UNCHANGED telemetryVars
  BY <1>1, <1>7, StaysSound DEF telemetryVars
<1>8. QED
  BY <1>3, <1>4, <1>5, <1>6, <1>7 DEF TelemetryNext

\* What makes the properties of the state inductive: the log holds each event once, and
\* what is on record is sound.
THEOREM TelemetryInvariant == TelemetrySpec => []TelemetryIInv
  BY TelemetryInitInvariant, TelemetryNextInvariant, PTL DEF TelemetrySpec

\* The log holds each event once, of those made, and the state what the log holds.
THEOREM TelemetryTypeCorrect == TelemetrySpec => []TelemetryTypeOK
<1>1. TelemetryIInv => TelemetryTypeOK
  BY DEF TelemetryIInv
<1>2. QED
  BY <1>1, TelemetryInvariant, PTL

\* StateIsNewest: however batches are split, repeated, delayed and reordered, a field shows
\* the last event to report it among those that were the newest when they came, and nothing
\* of those that came behind a newer one (record_device_telemetry, last_sequence).
THEOREM NewestShows == TelemetrySpec => []StateIsNewest
<1>1. ASSUME TelemetryIInv PROVE StateIsNewest
  <2>1. /\ OnRecord.log = log /\ OnRecord.state = state /\ OnRecord.last = lastSequence
        /\ Sound(OnRecord)
    BY <1>1 DEF TelemetryIInv, OnRecord, SoundRecords
  <2>2. QED
    BY <2>1 DEF Sound, ShowsNewest, StateIsNewest
<1>2. QED
  BY <1>1, TelemetryInvariant, PTL

----------------------------------------------------------------------------
(* Remainders *)

LEMMA Division ==
    ASSUME NEW a \in Nat, NEW l \in Nat \ {0}
    PROVE  a = l * (a \div l) + (a % l) /\ a \div l \in Nat /\ a % l \in 0..l - 1
  OBVIOUS

LEMMA RemainderUnique ==
    ASSUME NEW q \in Int, NEW p \in Int, NEW r \in Int, NEW s \in Int, NEW l \in Nat \ {0},
           0 <= r, r < l, 0 <= s, s < l, l * q + r = l * p + s
    PROVE  q = p /\ r = s
<1>1. l * (q - p) = s - r /\ l * (p - q) = r - s
  OBVIOUS
<1>2. q - p >= 1 => l * (q - p) >= l
  OBVIOUS
<1>3. p - q >= 1 => l * (p - q) >= l
  OBVIOUS
<1>4. ~(q - p >= 1) /\ ~(p - q >= 1)
  BY <1>1, <1>2, <1>3
<1>5. q = p
  BY <1>4
<1>6. QED
  BY <1>5

Leaves(a, l, q, r) == q \in Int /\ r \in 0..l - 1 /\ a = l * q + r

LEMMA Remainder ==
    ASSUME NEW a \in Nat, NEW l \in Nat \ {0}, NEW q, NEW r, Leaves(a, l, q, r)
    PROVE  a % l = r
<1>1. q \in Int /\ r \in Int /\ 0 <= r /\ r < l /\ a = l * q + r
  BY DEF Leaves
<1>2. a = l * (a \div l) + (a % l) /\ a \div l \in Nat /\ a % l \in 0..l - 1
  BY Division
<1> DEFINE p == a \div l
           s == a % l
<1>3. p \in Int /\ s \in Int /\ 0 <= s /\ s < l /\ l * q + r = l * p + s
  BY <1>1, <1>2
<1> HIDE DEF p, s
<1>4. r = s
  BY <1>1, <1>3, RemainderUnique
<1>5. QED
  BY <1>4 DEF s

LEMMA Distribute ==
    ASSUME NEW l \in Int, NEW x \in Int, NEW y \in Int
    PROVE  l * (x + y) = l * x + l * y
  OBVIOUS

\* A remainder may be taken before a sum.
LEMMA RemainderOfSum ==
    ASSUME NEW a \in Nat, NEW b \in Nat, NEW l \in Nat \ {0}
    PROVE  ((a % l) + b) % l = (a + b) % l
<1> DEFINE r == a % l
           c == r + b
<1>1. a = l * (a \div l) + r /\ a \div l \in Nat /\ r \in 0..l - 1
  BY Division
<1> HIDE DEF r
<1>2. c \in Nat
  BY <1>1
<1>3. c = l * (c \div l) + (c % l) /\ c \div l \in Nat /\ c % l \in 0..l - 1
  BY <1>2, Division
<1>4. a + b = l * (a \div l) + c
  BY <1>1
<1> HIDE DEF c
<1> DEFINE x == a \div l
           y == c \div l
           s == c % l
<1>5. x \in Int /\ y \in Int /\ s \in 0..l - 1 /\ c = l * y + s /\ a + b = l * x + c
  BY <1>1, <1>3, <1>4
<1> HIDE DEF x, y, s
<1>6. Leaves(a + b, l, x + y, s)
  BY <1>5, Distribute DEF Leaves
<1>7. (a + b) % l = c % l
  <2>1. (a + b) % l = s
    BY <1>6, Remainder
  <2>2. QED
    BY <2>1 DEF s
<1>8. QED
  BY <1>7 DEF c, r

LEMMA RemainderOfSmall ==
    ASSUME NEW a \in Nat, NEW l \in Nat \ {0}, a < l
    PROVE  a % l = a
  OBVIOUS

\* A number and the next that leave the same remainder are as far apart as the divisor.
LEMMA RemainderRepeats ==
    ASSUME NEW a \in Nat, NEW b \in Nat, NEW l \in Nat \ {0}
    PROVE  /\ b = a + l => b % l = a % l
           /\ a < b /\ b < a + l => a % l # b % l
<1>1. a = l * (a \div l) + (a % l) /\ a \div l \in Nat /\ a % l \in 0..l - 1
  BY Division
<1>2. b = l * (b \div l) + (b % l) /\ b \div l \in Nat /\ b % l \in 0..l - 1
  BY Division
<1>3. ASSUME b = a + l
      PROVE  b % l = a % l
  <2> DEFINE x == a \div l
             s == a % l
  <2>1. x \in Int /\ s \in 0..l - 1 /\ b = l * x + s + l
    BY <1>1, <1>3
  <2> HIDE DEF x, s
  <2>2. Leaves(b, l, x + 1, s)
    BY <2>1, Distribute DEF Leaves
  <2>3. b % l = s
    BY <2>2, Remainder
  <2>4. QED
    BY <2>3 DEF s
<1>4. ASSUME a < b, b < a + l, a % l = b % l
      PROVE  FALSE
  <2> DEFINE d == (b \div l) - (a \div l)
  <2>1. d \in Int /\ l * d = b - a
    BY <1>1, <1>2, <1>4
  <2> HIDE DEF d
  <2>2. l * d > 0 /\ l * d < l
    BY <1>4, <2>1
  <2>3. d >= 1 => l * d >= l
    BY <2>1
  <2>4. d <= 0 => l * d <= 0
    BY <2>1
  <2>5. QED
    BY <2>1, <2>2, <2>3, <2>4
<1>5. QED
  BY <1>3, <1>4

----------------------------------------------------------------------------
(* The queue of a moment *)

LEMMA BoundsTyped == /\ LastMoment \in Nat /\ Lifetime \in Nat \ {0} /\ MaxBuilds \in Nat \ {0}
                     /\ Window \in Nat \ {0} /\ Cardinality(Items) \in Nat
<1>1. IsFiniteSet(Items)
  BY QueueAssumption
<1>2. Cardinality(Items) \in Nat
  BY <1>1, FS_CardinalityType
<1>3. QED
  BY <1>2, QueueAssumption

LEMMA ItemsTyped ==
    ASSUME NEW i \in Items
    PROVE  /\ Track[i].playlist \in Int /\ PriorityOf[Track[i].playlist] \in Int
           /\ Track[i].position \in Nat /\ Track[i].duration \in Nat \ {0}
<1>1. /\ Track[i].playlist \in Playlists /\ Track[i].position \in Nat
      /\ Track[i].duration \in Nat \ {0}
  BY QueueAssumption
<1>2. \A p \in Playlists : p \in Int /\ PriorityOf[p] \in Int
  BY QueueAssumption
<1>3. QED
  BY <1>1, <1>2

\* Whatever the order mode, of two items one comes first: no two items of a playlist have
\* the same position (uniq_playlist_snapshot_item_position), no two the same id.
LEMMA BeforeOrders ==
    ASSUME NEW r \in Runtimes, NEW t \in Moments, NEW i \in Items, NEW j \in Items
    PROVE  /\ ~Before(r, t, i, i)
           /\ i # j => Before(r, t, i, j) \/ Before(r, t, j, i)
           /\ \A k \in Items : Before(r, t, i, j) /\ Before(r, t, j, k) => Before(r, t, i, k)
<1>1. \A x \in Items : x \in Nat
  BY QueueAssumption
<1>2. CASE r.order = "SHUFFLE"
  <2> DEFINE score == Score[r.version, t \div DayLength]
  <2>1. \A x \in Items : score[x] \in Int
    <3>1. r.version \in 1..MaxBuilds
      BY DEF Runtimes
    <3>2. \A v \in 1..MaxBuilds, x \in Items : Score[v, t \div DayLength][x] \in Int
      BY QueueAssumption
    <3>3. QED
      BY <3>1, <3>2
  <2>2. \A x, y \in Items : Before(r, t, x, y) <=> score[x] < score[y] \/ (score[x] = score[y] /\ x < y)
    BY <1>2 DEF Before, Shuffled
  <2> HIDE DEF score
  <2>3. QED
    BY <1>1, <2>1, <2>2
<1>3. CASE r.order # "SHUFFLE"
  <2> DEFINE priority(x) == PriorityOf[Track[x].playlist]
             list(x) == Track[x].playlist
             position(x) == Track[x].position
  <2>1. \A x \in Items : priority(x) \in Int /\ list(x) \in Int /\ position(x) \in Int
    BY ItemsTyped
  <2>2. \A x, y \in Items : Before(r, t, x, y) <=>
            \/ priority(x) > priority(y)
            \/ priority(x) = priority(y) /\ list(x) < list(y)
            \/ priority(x) = priority(y) /\ list(x) = list(y) /\ position(x) < position(y)
    BY <1>3 DEF Before, Precedes
  <2>3. \A x, y \in Items : list(x) = list(y) /\ position(x) = position(y) => x = y
    BY QueueAssumption
  <2> HIDE DEF priority, list, position
  <2>4. QED
    BY <2>1, <2>2, <2>3
<1>4. QED
  BY <1>2, <1>3

\* Each item that is queued has a place in the queue, and no two the same.
LEMMA QueueHasEach ==
    ASSUME NEW r \in Runtimes, NEW t \in Moments
    PROVE  Queue(r, t) \in Queues /\ IsInjective(Queue(r, t))
<1> DEFINE A == Admissible(r, t)
           N == Cardinality(A)
           Ahead(i) == {j \in A : Before(r, t, j, i)}
           rank == [i \in A |-> Cardinality(Ahead(i))]
           q == Queue(r, t)
<1>1. A \subseteq Items
  BY DEF Admissible, Runtimes
<1>2. IsFiniteSet(A) /\ N \in Nat /\ N <= Cardinality(Items) /\ Cardinality(Items) \in Nat
  BY <1>1, QueueAssumption, FS_Subset, FS_CardinalityType
<1>3. q = [n \in 1..N |-> CHOOSE i \in A : Cardinality(Ahead(i)) = n - 1]
  BY DEF Queue
<1>4. \A i \in A : IsFiniteSet(Ahead(i)) /\ rank[i] = Cardinality(Ahead(i)) /\ rank[i] \in Nat
                   /\ rank[i] < N
  <2> SUFFICES ASSUME NEW i \in A
               PROVE  /\ IsFiniteSet(Ahead(i)) /\ Cardinality(Ahead(i)) \in Nat
                      /\ Cardinality(Ahead(i)) < N
    OBVIOUS
  <2>1. Ahead(i) \in SUBSET A /\ i \notin Ahead(i)
    BY <1>1, BeforeOrders
  <2> HIDE DEF Ahead
  <2>2. IsFiniteSet(Ahead(i)) /\ Cardinality(Ahead(i)) <= N /\ Cardinality(Ahead(i)) # N
    BY <1>2, <2>1, FS_Subset
  <2>3. Cardinality(Ahead(i)) \in Nat
    BY <2>2, FS_CardinalityType
  <2>4. QED
    BY <1>2, <2>2, <2>3
<1>5. \A i, j \in A : Before(r, t, i, j) => rank[i] # rank[j]
  <2> SUFFICES ASSUME NEW i \in A, NEW j \in A, Before(r, t, i, j)
               PROVE  Cardinality(Ahead(i)) # Cardinality(Ahead(j))
    OBVIOUS
  <2>1. Ahead(i) \in SUBSET Ahead(j) /\ i \in Ahead(j) /\ i \notin Ahead(i)
    BY <1>1, BeforeOrders
  <2>2. IsFiniteSet(Ahead(j))
    BY <1>4
  <2> HIDE DEF Ahead
  <2>3. QED
    BY <2>1, <2>2, FS_Subset
<1>6. \A i, j \in A : i # j => rank[i] # rank[j]
  BY <1>1, <1>5, BeforeOrders
<1> HIDE DEF rank, q, A, N, Ahead
<1>7. rank \in [A -> 0..N - 1]
  BY <1>2, <1>4 DEF rank
<1>8. rank \in Injection(A, 0..N - 1)
  BY <1>6, <1>7 DEF Injection, IsInjective
<1>9. IsFiniteSet(0..N - 1) /\ Cardinality(0..N - 1) = N
  <2>1. ASSUME NEW m \in Int
        PROVE  IsFiniteSet(0..m) /\ Cardinality(0..m) = IF 0 > m THEN 0 ELSE m - 0 + 1
    BY FS_Interval
  <2>2. PICK m \in Int : m = N - 1
    BY <1>2
  <2>3. IsFiniteSet(0..m) /\ Cardinality(0..m) = IF 0 > m THEN 0 ELSE m - 0 + 1
    BY <2>1
  <2>4. Cardinality(0..m) = N
    BY <1>2, <2>2, <2>3
  <2>5. QED
    BY <2>2, <2>3, <2>4
<1>10. rank \in Surjection(A, 0..N - 1)
  BY <1>8, <1>9, FS_Injection DEF N
<1>11. \A n \in 1..N : \E i \in A : rank[i] = n - 1
  BY <1>2, <1>10 DEF Surjection
<1>12. \A n \in 1..N : q[n] \in A /\ rank[q[n]] = n - 1
  BY <1>3, <1>4, <1>11
<1>13. q \in [1..N -> Items] /\ IsInjective(q)
  BY <1>1, <1>2, <1>3, <1>12 DEF IsInjective
<1>14. QED
  BY <1>2, <1>13 DEF q, Queues

----------------------------------------------------------------------------
(* The clock *)

LEMMA QueuesTyped ==
    ASSUME NEW queue \in Queues
    PROVE  /\ Len(queue) \in Nat /\ Len(queue) <= Cardinality(Items)
           /\ DOMAIN queue = 1..Len(queue)
           /\ \A k \in 1..Len(queue) : queue[k] \in Items
           /\ queue \in Seq(Items)
<1>1. Cardinality(Items) \in Nat
  BY QueueAssumption, FS_CardinalityType
<1>2. PICK n \in 0..Cardinality(Items) : queue \in [1..n -> Items]
  BY DEF Queues
<1>3. QED
  BY <1>1, <1>2

\* How long the first items last is a sum.
LEMMA LastingSums ==
    ASSUME NEW queue \in Queues
    PROVE  /\ Lasting(queue)[0] = 0
           /\ \A k \in 0..Len(queue) : Lasting(queue)[k] \in Nat
           /\ \A k \in 1..Len(queue) :
                Lasting(queue)[k] = Lasting(queue)[k - 1] + Track[queue[k]].duration
<1> DEFINE size == Len(queue)
           adding == [k \in 1..size |-> [s \in Nat |-> s + Track[queue[k]].duration]]
           Sums(f) == f = [k \in 0..size |-> IF k = 0 THEN 0 ELSE f[k - 1] + Track[queue[k]].duration]
           sum == Lasting(queue)
<1>1. size \in Nat /\ \A k \in 1..size : Track[queue[k]].duration \in Nat
  BY QueuesTyped, ItemsTyped
<1>2. adding \in [1..size -> [Nat -> Nat]]
  BY <1>1
<1>3. \A k \in 1..size, s \in Nat : adding[k][s] = s + Track[queue[k]].duration
  OBVIOUS
<1>4. sum = CHOOSE f : Sums(f)
  BY DEF Lasting
<1> HIDE DEF adding, sum, size
<1>5. \E g : Iterates(g, Nat, 0, size, adding)
  <2>1. 0 \in Nat /\ size \in Nat
    BY <1>1
  <2>2. QED
    BY <1>2, <2>1, StepByStep
<1>6. PICK g : /\ g \in [0..size -> Nat]
               /\ g[0] = 0 /\ \A k \in 1..size : g[k] = adding[k][g[k - 1]]
  BY <1>5 DEF Iterates
<1>7. \A k \in 0..size : g[k] = IF k = 0 THEN 0 ELSE g[k - 1] + Track[queue[k]].duration
  <2> SUFFICES ASSUME NEW k \in 0..size
               PROVE  g[k] = IF k = 0 THEN 0 ELSE g[k - 1] + Track[queue[k]].duration
    OBVIOUS
  <2>1. CASE k = 0
    BY <1>6, <2>1
  <2>2. CASE k # 0
    <3>1. k \in 1..size /\ k - 1 \in 0..size
      BY <1>1, <2>2
    <3>2. g[k - 1] \in Nat
      BY <1>6, <3>1
    <3>3. QED
      BY <1>3, <1>6, <2>2, <3>1, <3>2
  <2>3. QED
    BY <2>1, <2>2
<1>8. Sums(g)
  BY <1>6, <1>7
<1>9. Sums(sum)
  BY <1>4, <1>8
<1>10. \A k \in 0..size : sum[k] = IF k = 0 THEN 0 ELSE sum[k - 1] + Track[queue[k]].duration
  BY <1>9
<1> DEFINE T == {k \in 0..size : sum[k] \in Nat}
<1>11. 0 \in T
  BY <1>1, <1>10
<1>12. \A k \in 1..size : k - 1 \in T => k \in T
  BY <1>1, <1>10
<1>13. 0..size \subseteq T
  <2> HIDE DEF T
  <2>1. QED
    BY <1>1, <1>11, <1>12, UpTo
<1>14. sum[0] = 0 /\ \A k \in 1..size : sum[k] = sum[k - 1] + Track[queue[k]].duration
  BY <1>1, <1>10
<1>15. QED
  BY <1>13, <1>14 DEF sum, size

\* At any time some item plays, if the queue repeats.
LEMMA SomethingPlays ==
    ASSUME NEW queue \in Queues, queue # <<>>, NEW t \in Nat
    PROVE  /\ IndexAt(queue, t) \in 0..Len(queue) - 1
           /\ InCycle(queue, t) \in Nat
           /\ Lasting(queue)[IndexAt(queue, t)] <= InCycle(queue, t)
           /\ InCycle(queue, t) < Lasting(queue)[IndexAt(queue, t) + 1]
<1> DEFINE size == Len(queue)
           sum == Lasting(queue)
           at == InCycle(queue, t)
           T == {n \in 0..size - 1 : at < sum[n + 1]}
<1>1. size \in Nat \ {0} /\ \A k \in 1..size : Track[queue[k]].duration \in Nat \ {0}
  BY QueuesTyped, ItemsTyped
<1>2. /\ sum[0] = 0 /\ \A k \in 0..size : sum[k] \in Nat
      /\ \A k \in 1..size : sum[k] = sum[k - 1] + Track[queue[k]].duration
  BY LastingSums
<1>3. at = t % sum[size]
  BY DEF InCycle
<1> HIDE DEF size, sum, at
<1>4. sum[size] \in Nat \ {0}
  BY <1>1, <1>2
<1>5. at \in Nat /\ at < sum[size]
  BY <1>3, <1>4
<1>6. T \subseteq Nat /\ size - 1 \in T
  BY <1>1, <1>5
<1>7. PICK n \in T : \A m \in T : n <= m
  <2>1. T # {}
    BY <1>6
  <2> HIDE DEF T
  <2>2. QED
    BY <1>6, <2>1, LeastNatural
<1>8. n \in 0..size - 1 /\ at < sum[n + 1]
  BY <1>7
<1>9. sum[n] <= at
  <2>1. CASE n = 0
    BY <1>2, <1>5, <2>1
  <2>2. CASE n # 0
    <3>1. n - 1 \in 0..size - 1 /\ n \in 0..size /\ sum[n] \in Nat /\ ~(n <= n - 1)
      BY <1>1, <1>2, <1>8, <2>2
    <3>2. n - 1 \notin T
      <4> HIDE DEF T
      <4>1. QED
        BY <1>7, <3>1
    <3>3. ~(at < sum[(n - 1) + 1])
      BY <3>1, <3>2
    <3>4. QED
      BY <1>5, <1>8, <3>1, <3>3
  <2>3. QED
    BY <2>1, <2>2
<1>10. \E m \in 0..size - 1 : sum[m] <= at /\ at < sum[m + 1]
  BY <1>8, <1>9
<1>11. IndexAt(queue, t) = CHOOSE m \in 0..size - 1 : sum[m] <= at /\ at < sum[m + 1]
  BY DEF IndexAt, size, sum, at
<1>12. QED
  BY <1>5, <1>10, <1>11 DEF size, sum, at

----------------------------------------------------------------------------
(* Pages *)

Pages == [items : Queues, queue : Queues, position : Nat, at : Moments,
          token : Tokens \cup {NoToken}]

\* A page shows its queue, without repetition, from an index on.
Shows(p, index) ==
    /\ p \in Pages /\ p # NoPage
    /\ p.queue # <<>> /\ IsInjective(p.queue)
    /\ index \in 0..Len(p.queue) - 1
    /\ Len(p.items) \in 1..Len(p.queue) /\ DOMAIN p.items = 1..Len(p.items)
    /\ p.token.index \in 0..Len(p.queue) - 1
    /\ p.token.index = (index + Len(p.items)) % Len(p.queue)
    /\ \A k \in 1..Len(p.items) : p.items[k] = p.queue[((index + k - 1) % Len(p.queue)) + 1]

\* A page is a part of the queue, from an index of it round to the one its token has.
LEMMA PageOfQueue ==
    ASSUME NEW r \in Runtimes, NEW queue \in Queues, queue # <<>>, IsInjective(queue),
           NEW index \in 0..Len(queue) - 1, NEW position \in Nat, NEW t \in Moments
    PROVE  /\ Shows(Page(r, queue, index, position, t), index)
           /\ Page(r, queue, index, position, t).queue = queue
           /\ Page(r, queue, index, position, t).position = position
           /\ Page(r, queue, index, position, t).at = t
<1> DEFINE size == Len(queue)
           given == Least(Window, size)
           p == Page(r, queue, index, position, t)
<1>1. size \in Nat \ {0} /\ size <= Cardinality(Items) /\ Cardinality(Items) \in Nat
      /\ (\A k \in 1..size : queue[k] \in Items)
  <2>1. Cardinality(Items) \in Nat
    BY QueueAssumption, FS_CardinalityType
  <2>2. QED
    BY <2>1, QueuesTyped
<1>2. given \in 1..size
  <2>1. Window \in Nat \ {0}
    BY QueueAssumption
  <2>2. QED
    BY <1>1, <2>1 DEF Least
<1>3. /\ p.queue = queue /\ p.position = position /\ p.at = t
      /\ p.items = [k \in 1..given |-> queue[((index + k - 1) % size) + 1]]
      /\ p.token = [manifest |-> r.manifest, version |-> r.version,
                    index |-> (index + given) % size, until |-> r.until]
      /\ p = [items |-> p.items, queue |-> queue, position |-> position, at |-> t, token |-> p.token]
  BY DEF Page, NextIndex
<1> HIDE DEF size, given, p
<1>4. index \in Nat /\ index < size
  BY DEF size
<1>5. (index + given) % size \in 0..size - 1
  BY <1>1, <1>2, <1>4
<1>6. \A k \in 1..given : /\ (index + k - 1) % size \in 0..size - 1
                          /\ queue[((index + k - 1) % size) + 1] \in Items
  <2> SUFFICES ASSUME NEW k \in 1..given
               PROVE  (index + k - 1) % size \in 0..size - 1
    BY <1>1
  <2>1. index + k - 1 \in Nat
    BY <1>2, <1>4
  <2>2. QED
    BY <1>1, <2>1, Division
<1>7. p.items \in [1..given -> Items] /\ p.items \in Queues /\ Len(p.items) = given
  <2>1. p.items \in [1..given -> Items]
    BY <1>3, <1>6
  <2>2. given \in 0..Cardinality(Items)
    BY <1>1, <1>2
  <2>3. p.items \in Queues
    BY <2>1, <2>2 DEF Queues
  <2>4. QED
    BY <1>2, <2>1, <2>3
<1>8. p.token \in Tokens /\ p.token # NoToken
  <2>1. r.manifest \in 1..MaxBuilds /\ r.version \in 1..MaxBuilds /\ r.until \in 0..Until
    BY DEF Runtimes
  <2>2. (index + given) % size \in 0..Cardinality(Items)
    BY <1>1, <1>5
  <2>3. p.token.manifest # 0
    BY <1>3, <2>1
  <2>4. QED
    BY <1>3, <2>1, <2>2, <2>3 DEF Tokens, NoToken
<1>9. p # NoPage
  BY <1>8 DEF NoPage
<1>10. p \in Pages
  BY <1>3, <1>7, <1>8 DEF Pages
<1>11. /\ p.token.index \in 0..size - 1 /\ p.token.index = (index + Len(p.items)) % size
       /\ \A k \in 1..Len(p.items) : p.items[k] = queue[((index + k - 1) % size) + 1]
  <2>1. p.token.index = (index + given) % size
    BY <1>3
  <2>2. \A k \in 1..given : p.items[k] = queue[((index + k - 1) % size) + 1]
    BY <1>3
  <2>3. QED
    BY <1>5, <1>7, <2>1, <2>2
<1>12. Shows(p, index)
  BY <1>2, <1>3, <1>7, <1>9, <1>10, <1>11 DEF Shows, size
<1>13. QED
  BY <1>3, <1>12 DEF p

\* The time before the point where a page starts is the clock's.
InTime(p) ==
    \E n \in DOMAIN p.queue :
        /\ p.items[1] = p.queue[n]
        /\ Lasting(p.queue)[n - 1] + p.position = InCycle(p.queue, p.at)
        /\ p.position < Track[p.queue[n]].duration

LEMMA NoPageTyped == NoPage \in Pages
<1>1. Cardinality(Items) \in Nat
  BY QueueAssumption, FS_CardinalityType
<1>2. <<>> \in [1..0 -> Items] /\ 0 \in 0..Cardinality(Items)
  BY <1>1
<1>3. <<>> \in Queues
  BY <1>2 DEF Queues
<1>4. 0 \in Moments
  BY BoundsTyped DEF Moments
<1>5. QED
  BY <1>3, <1>4 DEF NoPage, Pages

LEMMA ByClockShows ==
    ASSUME NEW r \in Runtimes, NEW t \in Moments, ByClock(r, t) # NoPage
    PROVE  /\ \E index : Shows(ByClock(r, t), index)
           /\ InTime(ByClock(r, t))
<1> DEFINE q == Queue(r, t)
           index == IndexAt(q, t)
           position == InCycle(q, t) - Lasting(q)[index]
           p == Page(r, q, index, position, t)
<1>1. q \in Queues /\ IsInjective(q)
  BY QueueHasEach
<1>2. q # <<>> /\ ByClock(r, t) = p
  BY DEF ByClock
<1>3. t \in Nat
  BY BoundsTyped DEF Moments
<1>4. /\ Len(q) \in Nat \ {0} /\ DOMAIN q = 1..Len(q)
      /\ \A k \in 1..Len(q) : q[k] \in Items /\ Track[q[k]].duration \in Nat
  BY <1>1, <1>2, QueuesTyped, ItemsTyped
<1>5. /\ index \in 0..Len(q) - 1 /\ InCycle(q, t) \in Nat
      /\ Lasting(q)[index] <= InCycle(q, t) /\ InCycle(q, t) < Lasting(q)[index + 1]
  BY <1>1, <1>2, <1>3, SomethingPlays
<1> HIDE DEF q, index
<1>6. index + 1 \in 1..Len(q) /\ (index + 1) - 1 = index
  BY <1>4, <1>5
<1>7. Lasting(q)[index] \in Nat /\ Lasting(q)[index + 1] = Lasting(q)[index] + Track[q[index + 1]].duration
  <2>1. \A k \in 0..Len(q) : Lasting(q)[k] \in Nat
    BY <1>1, LastingSums
  <2>2. \A k \in 1..Len(q) : Lasting(q)[k] = Lasting(q)[k - 1] + Track[q[k]].duration
    BY <1>1, LastingSums
  <2>3. QED
    BY <1>4, <1>5, <1>6, <2>1, <2>2
<1>8. position \in Nat /\ Lasting(q)[index] + position = InCycle(q, t)
      /\ position < Track[q[index + 1]].duration
  BY <1>4, <1>5, <1>6, <1>7
<1> HIDE DEF position, p
<1>9. Shows(p, index) /\ p.queue = q /\ p.position = position /\ p.at = t
  BY <1>1, <1>2, <1>5, <1>8, PageOfQueue DEF p
<1>10. p.items[1] = q[index + 1]
  <2>1. index + 1 - 1 = index /\ index % Len(q) = index
    BY <1>4, <1>5, RemainderOfSmall
  <2>2. 1 \in 1..Len(p.items)
    BY <1>4, <1>9 DEF Shows
  <2>3. QED
    BY <1>9, <2>1, <2>2 DEF Shows
<1>11. InTime(p)
  BY <1>4, <1>6, <1>8, <1>9, <1>10 DEF InTime
<1>12. QED
  BY <1>2, <1>9, <1>11

LEMMA ByTokenShows ==
    ASSUME NEW r \in Runtimes, NEW t \in Moments, NEW token, token.index \in Nat,
           ByToken(token, r, t) # NoPage
    PROVE  LET p == ByToken(token, r, t)
           IN  Shows(p, token.index % Len(p.queue)) /\ p.position = 0
<1> DEFINE q == Queue(r, t)
           index == token.index % Len(q)
           p == Page(r, q, index, 0, t)
<1>1. q \in Queues /\ IsInjective(q)
  BY QueueHasEach
<1>2. q # <<>> /\ ByToken(token, r, t) = p
  BY DEF ByToken
<1>3. Len(q) \in Nat \ {0}
  BY <1>1, <1>2, QueuesTyped
<1>4. index \in 0..Len(q) - 1
  BY <1>3
<1> HIDE DEF q, index, p
<1>5. Shows(p, index) /\ p.queue = q /\ p.position = 0
  <2>1. ASSUME NEW n \in Nat
        PROVE  /\ Shows(Page(r, q, index, n, t), index)
               /\ Page(r, q, index, n, t).queue = q /\ Page(r, q, index, n, t).position = n
    BY <1>1, <1>2, <1>4, PageOfQueue
  <2>2. QED
    BY <2>1 DEF p
<1>6. QED
  BY <1>2, <1>5 DEF index

----------------------------------------------------------------------------
(* What is heard *)

\* All that was heard of a queue is the queue itself, round and round from where it
\* started, and the token goes on where that ends.
HeardFrom(start) ==
    /\ \A k \in 1..Len(heard) : heard[k] = page.queue[((start + k - 1) % Len(page.queue)) + 1]
    /\ page.token.index = (start + Len(heard)) % Len(page.queue)

Tiled ==
    \/ page = NoPage /\ heard = <<>>
    \/ /\ page # NoPage /\ page.queue # <<>> /\ IsInjective(page.queue)
       /\ page.token.index \in 0..Len(page.queue) - 1
       /\ \E start \in Nat : HeardFrom(start)

QueueIInv ==
    /\ QueueTypeOK
    /\ runtime.version <= runtime.manifest
    /\ Tiled
    /\ page # NoPage /\ page.position # 0 => InTime(page)

\* A page that starts or starts again is what is heard.
LEMMA StartsTiled ==
    ASSUME page' # NoPage => \E index : Shows(page', index),
           page' = NoPage \/ page' \in Pages, heard' = page'.items
    PROVE  Tiled' /\ heard' \in Seq(Items)
<1>1. CASE page' = NoPage
  BY <1>1 DEF NoPage, Tiled
<1>2. CASE page' # NoPage
  <2>1. PICK index : Shows(page', index)
    BY <1>2
  <2>2. page'.items \in Queues /\ page'.queue \in Queues /\ index \in Nat
    BY <2>1, QueuesTyped DEF Shows, Pages
  <2>3. heard' \in Seq(Items)
    BY <2>2, QueuesTyped
  <2>4. HeardFrom(index)'
    BY <2>1 DEF Shows, HeardFrom
  <2>5. Tiled'
    BY <1>2, <2>1, <2>2, <2>4 DEF Shows, Tiled
  <2>6. QED
    BY <2>3, <2>5
<1>3. QED
  BY <1>1, <1>2

\* A page that goes on with the same queue begins where the last ended.
LEMMA GoesOnTiled ==
    ASSUME Tiled, page # NoPage, heard \in Seq(Items), page'.queue = page.queue,
           Shows(page', page.token.index % Len(page'.queue)), heard' = heard \o page'.items
    PROVE  Tiled' /\ heard' \in Seq(Items)
<1> DEFINE q == page.queue
           size == Len(q)
           index == page.token.index % size
           h == Len(heard)
           n == Len(page'.items)
<1>1. q \in Queues /\ page'.items \in Queues /\ q # <<>>
  BY DEF Shows, Pages
<1>2. size \in Nat \ {0} /\ page'.items \in Seq(Items) /\ n \in Nat /\ h \in Nat
  BY <1>1, QueuesTyped
<1>3. PICK start \in Nat : HeardFrom(start)
  BY DEF Tiled
<1>4. index = (start + h) % size
  <2>1. page.token.index = (start + h) % size
    BY <1>3 DEF HeardFrom
  <2>2. page.token.index \in 0..size - 1
    BY DEF Tiled
  <2>3. page.token.index % size = page.token.index
    <3> DEFINE next == page.token.index
    <3> HIDE DEF next, size
    <3>1. next \in Nat /\ next < size
      BY <1>2, <2>2 DEF next
    <3>2. next % size = next
      BY <1>2, <3>1, RemainderOfSmall
    <3>3. QED
      BY <3>2 DEF next
  <2>4. QED
    BY <2>1, <2>3
<1>5. \A j \in Nat : (index + j) % size = (start + h + j) % size
  <2> SUFFICES ASSUME NEW j \in Nat
               PROVE  (index + j) % size = (start + h + j) % size
    OBVIOUS
  <2>1. start + h \in Nat
    BY <1>2
  <2>2. (((start + h) % size) + j) % size = (start + h + j) % size
    BY <1>2, <2>1, RemainderOfSum
  <2>3. QED
    BY <1>4, <2>2
<1>6. /\ heard' \in Seq(Items) /\ Len(heard') = h + n
      /\ \A k \in 1..h : heard'[k] = heard[k]
      /\ \A k \in 1..n : heard'[h + k] = page'.items[k]
  BY <1>2
<1>7. /\ n \in 1..size /\ page'.token.index \in 0..size - 1
      /\ page'.token.index = (index + n) % size
      /\ \A k \in 1..n : page'.items[k] = q[((index + k - 1) % size) + 1]
      /\ IsInjective(q) /\ page' # NoPage
  BY DEF Shows
<1> HIDE DEF q, size, index, h, n
<1>8. ASSUME NEW k \in 1..h + n
      PROVE  heard'[k] = q[((start + k - 1) % size) + 1]
  <2>1. CASE k <= h
    <3>1. k \in 1..h
      BY <1>2, <2>1
    <3>2. heard[k] = q[((start + k - 1) % size) + 1]
      BY <1>3, <3>1 DEF HeardFrom, q, size, h
    <3>3. QED
      BY <1>6, <3>1, <3>2
  <2>2. CASE ~(k <= h)
    <3> DEFINE j == k - h
    <3>1. j \in 1..n /\ k = h + j /\ j - 1 \in Nat /\ start + k - 1 = start + h + (j - 1)
      BY <1>2, <2>2
    <3> HIDE DEF j
    <3>2. index \in Nat /\ index + j - 1 = index + (j - 1)
      BY <1>2, <1>4, <3>1
    <3>3. heard'[k] = q[((index + (j - 1)) % size) + 1]
      BY <1>6, <1>7, <3>1, <3>2
    <3>4. QED
      BY <1>5, <3>1, <3>3
  <2>3. QED
    BY <2>1, <2>2
<1>9. page'.token.index = (start + (h + n)) % size
  <2>1. (index + n) % size = (start + h + n) % size
    BY <1>2, <1>5
  <2>2. start + h + n = start + (h + n)
    BY <1>2
  <2>3. QED
    BY <1>7, <2>1, <2>2
<1>10. HeardFrom(start)'
  BY <1>6, <1>8, <1>9 DEF HeardFrom, q, size
<1>11. Tiled'
  BY <1>1, <1>7, <1>10 DEF Tiled, q, size
<1>12. QED
  BY <1>6, <1>11

LEMMA QueueInitInvariant == QueueInit => QueueIInv
<1> SUFFICES ASSUME QueueInit PROVE QueueIInv
  OBVIOUS
<1>1. /\ moment = 0 /\ cached = runtime /\ page = NoPage /\ heard = <<>>
      /\ runtime \in [manifest : {1}, version : {1}, until : {Lifetime}, items : {Items}, order : Orders]
  BY DEF QueueInit
<1>2. runtime \in Runtimes /\ runtime.version <= runtime.manifest /\ moment \in Moments
  BY <1>1, BoundsTyped DEF Runtimes, Until, Moments
<1>3. page \in Pages /\ page.token = NoToken
  BY <1>1, NoPageTyped DEF NoPage
<1>4. QueueTypeOK
  BY <1>1, <1>2, <1>3 DEF QueueTypeOK, Pages
<1>5. QED
  BY <1>1, <1>2, <1>4 DEF QueueIInv, Tiled

\* An answer of the gateway leaves the rest of the types as they are.
LEMMA AnswerTyped ==
    ASSUME QueueTypeOK, NEW r \in {runtime, cached}, Keep(r), UNCHANGED <<moment, runtime>>,
           page' = NoPage \/ \E index : Shows(page', index), heard' \in Seq(Items)
    PROVE  QueueTypeOK'
<1>1. moment' \in Moments /\ runtime' \in Runtimes /\ cached' \in Runtimes
  BY DEF QueueTypeOK, Keep
<1>2. page' \in Pages /\ (page'.token # NoToken => page'.token.index < Len(page'.queue))
  <2>1. CASE page' = NoPage
    BY <2>1, NoPageTyped DEF NoPage
  <2>2. CASE \E index : Shows(page', index)
    <3>1. page' \in Pages /\ page'.token.index \in 0..Len(page'.queue) - 1
      BY <2>2 DEF Shows
    <3>2. Len(page'.queue) \in Nat
      BY <3>1, QueuesTyped DEF Pages
    <3>3. QED
      BY <3>1, <3>2
  <2>3. QED
    BY <2>1, <2>2
<1>3. QED
  BY <1>1, <1>2 DEF QueueTypeOK, Pages

LEMMA QueueNextInvariant == QueueIInv /\ [QueueNext]_queueVars => QueueIInv'
<1> SUFFICES ASSUME QueueIInv, [QueueNext]_queueVars PROVE QueueIInv'
  OBVIOUS
<1>1. /\ QueueTypeOK /\ Tiled /\ (page # NoPage /\ page.position # 0 => InTime(page))
      /\ runtime.version <= runtime.manifest
      /\ moment \in Moments /\ moment \in Nat /\ runtime \in Runtimes /\ cached \in Runtimes
      /\ page \in Pages /\ heard \in Seq(Items)
  BY BoundsTyped DEF QueueIInv, QueueTypeOK, Pages, Moments
<1>2. CASE Tick
  <2>1. UNCHANGED <<runtime, cached, page, heard>> /\ moment' \in Moments
    BY <1>1, <1>2, BoundsTyped DEF Tick, Moments
  <2>2. QueueTypeOK'
    BY <1>1, <2>1 DEF QueueTypeOK
  <2>3. Tiled' /\ (page # NoPage /\ page.position # 0 => InTime(page))'
    BY <1>1, <2>1 DEF Tiled, HeardFrom, InTime
  <2>4. QED
    BY <1>1, <2>1, <2>2, <2>3 DEF QueueIInv
<1>3. ASSUME NEW items \in SUBSET Items, NEW rebuilt \in BOOLEAN, NEW order \in Orders,
             BuildManifest(items, rebuilt, order)
      PROVE  QueueIInv'
  <2>1. /\ UNCHANGED <<moment, cached, page, heard>> /\ runtime.manifest < MaxBuilds
        /\ runtime' = [manifest |-> runtime.manifest + 1,
                       version |-> IF rebuilt THEN runtime.version + 1 ELSE runtime.version,
                       until |-> moment + Lifetime, items |-> items, order |-> order]
    BY <1>3 DEF BuildManifest
  <2>2. /\ runtime.manifest \in 1..MaxBuilds /\ runtime.version \in 1..MaxBuilds
        /\ moment + Lifetime \in 0..Until
    BY <1>1, BoundsTyped DEF Runtimes, Until, Moments
  <2>3. runtime' \in Runtimes /\ runtime'.version <= runtime'.manifest
    BY <1>1, <2>1, <2>2, BoundsTyped DEF Runtimes
  <2>4. QueueTypeOK'
    BY <1>1, <2>1, <2>3 DEF QueueTypeOK
  <2>5. Tiled' /\ (page # NoPage /\ page.position # 0 => InTime(page))'
    BY <1>1, <2>1 DEF Tiled, HeardFrom, InTime
  <2>6. QED
    BY <2>3, <2>4, <2>5 DEF QueueIInv
<1>4. ASSUME NEW r \in {runtime, cached}, AskStart(r)
      PROVE  QueueIInv'
  <2>1. /\ Keep(r) /\ page' = ByClock(r, moment) /\ heard' = page'.items
        /\ UNCHANGED <<moment, runtime>> /\ r \in Runtimes
    BY <1>1, <1>4 DEF AskStart
  <2>2. page' # NoPage => (\E index : Shows(page', index)) /\ InTime(page')
    BY <1>1, <2>1, ByClockShows
  <2>3. Tiled' /\ heard' \in Seq(Items)
    BY <2>1, <2>2, StartsTiled DEF Shows
  <2>4. QueueTypeOK'
    BY <1>1, <2>1, <2>2, <2>3, AnswerTyped
  <2>5. (page # NoPage /\ page.position # 0 => InTime(page))'
    BY <2>1, <2>2 DEF InTime
  <2>6. QED
    BY <1>1, <2>1, <2>3, <2>4, <2>5 DEF QueueIInv
<1>5. ASSUME NEW r \in {runtime, cached}, AskMore(r)
      PROVE  QueueIInv'
  <2>1. /\ Keep(r) /\ page' = ByToken(page.token, r, moment) /\ page # NoPage
        /\ heard' = IF page'.queue = page.queue THEN heard \o page'.items ELSE page'.items
        /\ UNCHANGED <<moment, runtime>> /\ r \in Runtimes
    BY <1>1, <1>5 DEF AskMore
  <2>2. page.token.index \in Nat
    BY <1>1 DEF Pages, Tokens, NoToken
  <2>3. page' # NoPage => Shows(page', page.token.index % Len(page'.queue)) /\ page'.position = 0
    BY <1>1, <2>1, <2>2, ByTokenShows
  <2>4. page' # NoPage => \E index : Shows(page', index)
    BY <2>3
  <2>5. Tiled' /\ heard' \in Seq(Items)
    <3>1. CASE page'.queue = page.queue
      <4>1. page' # NoPage
        BY <1>1, <2>1, <3>1 DEF Tiled, NoPage
      <4>2. QED
        BY <1>1, <2>1, <2>3, <3>1, <4>1, GoesOnTiled
    <3>2. CASE page'.queue # page.queue
      BY <2>1, <2>4, <3>2, StartsTiled DEF Shows
    <3>3. QED
      BY <3>1, <3>2
  <2>6. QueueTypeOK'
    BY <1>1, <2>1, <2>4, <2>5, AnswerTyped
  <2>7. QED
    BY <1>1, <2>1, <2>3, <2>5, <2>6 DEF QueueIInv
<1>6. ASSUME NEW r \in {runtime, cached}, AskTooLate(r)
      PROVE  QueueIInv'
  <2>1. Keep(r) /\ page' = NoPage /\ heard' = <<>> /\ UNCHANGED <<moment, runtime>>
    BY <1>6 DEF AskTooLate
  <2>2. QueueTypeOK'
    BY <1>1, <2>1, AnswerTyped
  <2>3. QED
    BY <1>1, <2>1, <2>2 DEF QueueIInv, Tiled
<1>7. CASE UNCHANGED queueVars
  <2>1. UNCHANGED <<moment, runtime, cached, page, heard>>
    BY <1>7 DEF queueVars
  <2>2. QueueTypeOK'
    BY <1>1, <2>1 DEF QueueTypeOK
  <2>3. Tiled' /\ (page # NoPage /\ page.position # 0 => InTime(page))'
    BY <1>1, <2>1 DEF Tiled, HeardFrom, InTime
  <2>4. QED
    BY <1>1, <2>1, <2>2, <2>3 DEF QueueIInv
<1>8. QED
  BY <1>2, <1>3, <1>4, <1>5, <1>6, <1>7 DEF QueueNext

\* What makes the properties of the pages inductive: what is heard is the queue, round and
\* round from some index, and the token goes on where it ends.
THEOREM QueueInvariant == QueueSpec => []QueueIInv
  BY QueueInitInvariant, QueueNextInvariant, PTL DEF QueueSpec

\* Pages and tokens are of queues of the zone's items, and indexes within them.
THEOREM QueueTypeCorrect == QueueSpec => []QueueTypeOK
<1>1. QueueIInv => QueueTypeOK
  BY DEF QueueIInv
<1>2. QED
  BY <1>1, QueueInvariant, PTL

\* PagesTile: for any items, durations, orders and window, page after page a player is
\* given each item of its queue once before any comes again, in the same order round after
\* round (Service.build and its continuation tokens).
THEOREM PagesTileTheQueue == QueueSpec => []PagesTile
<1>1. ASSUME QueueIInv PROVE PagesTile
  <2> DEFINE q == page.queue
             size == Len(q)
  <2>1. CASE page = NoPage
    <3>1. heard = <<>>
      BY <1>1, <2>1 DEF QueueIInv, Tiled
    <3>2. QED
      BY <3>1 DEF PagesTile
  <2>2. CASE page # NoPage
    <3>1. /\ q \in Queues /\ q # <<>> /\ IsInjective(q) /\ heard \in Seq(Items)
          /\ \E start \in Nat : HeardFrom(start)
      BY <1>1, <2>2 DEF QueueIInv, QueueTypeOK, Tiled
    <3>2. PICK start \in Nat : HeardFrom(start)
      BY <3>1
    <3>3. size \in Nat \ {0} /\ DOMAIN q = 1..size /\ DOMAIN heard = 1..Len(heard) /\ Len(heard) \in Nat
      BY <3>1, QueuesTyped
    <3> DEFINE place(k) == (start + k - 1) % size
    <3>4. \A k \in DOMAIN heard : heard[k] = q[place(k) + 1]
      BY <3>2, <3>3 DEF HeardFrom
    <3> HIDE DEF q, size
    <3>5. ASSUME NEW k \in DOMAIN heard, NEW m \in DOMAIN heard
          PROVE  /\ k < m /\ m < k + size => place(k) # place(m)
                 /\ m = k + size => place(m) = place(k)
      <4> DEFINE a == start + k - 1
                 b == start + m - 1
      <4>1. /\ a \in Nat /\ b \in Nat /\ size \in Nat \ {0}
            /\ (k < m => a < b) /\ (m < k + size => b < a + size) /\ (m = k + size => b = a + size)
        BY <3>3
      <4> HIDE DEF a, b
      <4>2. (b = a + size => b % size = a % size) /\ (a < b /\ b < a + size => a % size # b % size)
        BY <4>1, RemainderRepeats
      <4>3. QED
        BY <4>1, <4>2 DEF a, b
    <3>6. \A k \in DOMAIN heard : place(k) \in 0..size - 1
      <4> SUFFICES ASSUME NEW k \in DOMAIN heard
                   PROVE  place(k) \in 0..size - 1
        OBVIOUS
      <4>1. start + k - 1 \in Nat
        BY <3>3
      <4>2. QED
        BY <3>3, <4>1, Division
    <3> HIDE DEF place
    <3>7. ASSUME NEW k \in DOMAIN heard, NEW m \in DOMAIN heard, k < m, m < k + size
          PROVE  heard[k] # heard[m]
      <4>1. place(k) # place(m) /\ place(k) + 1 \in DOMAIN q /\ place(m) + 1 \in DOMAIN q
            /\ place(k) + 1 # place(m) + 1
        BY <3>3, <3>5, <3>6, <3>7
      <4>2. q[place(k) + 1] # q[place(m) + 1]
        BY <3>1, <4>1 DEF IsInjective
      <4>3. QED
        BY <3>4, <4>2
    <3>8. ASSUME NEW k \in DOMAIN heard, k + size \in DOMAIN heard
          PROVE  heard[k + size] = heard[k]
      BY <3>4, <3>5, <3>8
    <3>9. QED
      BY <3>7, <3>8 DEF PagesTile, q, size
  <2>3. QED
    BY <2>1, <2>2
<1>2. QED
  BY <1>1, QueueInvariant, PTL

\* OnTheClock: whatever the durations, a player that starts is given the item that plays at
\* that moment if the queue repeats from time 0, at the point it has come to
\* (deterministicPosition), so that all players of a zone agree.
THEOREM StartsOnTheClock == QueueSpec => []OnTheClock
<1>1. QueueIInv => OnTheClock
  BY DEF QueueIInv, InTime, OnTheClock
<1>2. QED
  BY <1>1, QueueInvariant, PTL

----------------------------------------------------------------------------
(* Together *)

\* PlayerTypesOK: the two conversations of a player, whichever goes on, keep their types.
THEOREM PlayerTypeCorrect == QueueSpec /\ TelemetrySpec => []PlayerTypesOK
  BY QueueTypeCorrect, TelemetryTypeCorrect, PTL DEF PlayerTypesOK

=============================================================================
