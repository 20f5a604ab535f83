-------------------------- MODULE Debugger_proofs --------------------------
(* Theorems about the debuggers on top of libraries and drivers, for any    *)
(* number of processes and handles and rings and buffers of any size.      *)
EXTENDS DebuggerInv, FiniteSetTheorems, TLAPS

USE RingAssumption, BtsAssumption, HandleAssumption, DebuggerAssumption

----------------------------------------------------------------------------
(* Rings.                                                                  *)

\* One turn of a ring at most.
LEMMA Wraps ==
    ASSUME NEW n \in Nat \ {0}, NEW t \in 0..(n - 1), NEW i \in 0..n
    PROVE  (t + i) % n = IF t + i < n THEN t + i ELSE t + i - n
<1>1. CASE t + i < n
  BY <1>1
<1>2. CASE t + i >= n
  BY <1>2
<1>3. QED
  BY <1>1, <1>2

LEMMA AgeRange ==
    ASSUME NEW n \in Nat \ {0}, NEW t \in 0..(n - 1), NEW i \in 0..(n - 1)
    PROVE  Age(n, t, i) \in 0..(n - 1)
BY DEF Age

LEMMA BranchIsReal ==
    ASSUME NEW p \in Pid, NEW k \in Nat
    PROVE  Real(<<p, k>>)
BY DEF Real

LEMMA MemoryIsNotReal == ~Real(Empty) /\ ~Real(Junk)
BY DEF Real

\* A ring whose process has not branched yet.
LEMMA HoldsNothing ==
    ASSUME NEW n \in Nat \ {0}, NEW t \in 0..(n - 1), NEW entries, NEW p, NEW from \in Nat,
           \A i \in 0..(n - 1) : ~Real(entries[i])
    PROVE  Holds(entries, n, t, p, from, from)
<1>1. \A i \in 0..(n - 1) : ~(Age(n, t, i) < from - from)
  BY AgeRange
<1>2. QED
  BY <1>1 DEF Holds

\* A branch is recorded in the slot behind the newest.
LEMMA HoldsRecord ==
    ASSUME NEW n \in Nat \ {0}, NEW t \in 0..(n - 1), NEW entries, NEW p,
           NEW from \in Nat, NEW upto \in Nat, from <= upto,
           Holds(entries, n, t, p, from, upto),
           NEW next \in 0..(n - 1), next = IF t + 1 < n THEN t + 1 ELSE 0,
           NEW later, later = upto + 1, NEW after, after[next] = <<p, later>>,
           \A i \in 0..(n - 1) : i # next => after[i] = entries[i]
    PROVE  Holds(after, n, next, p, from, later)
<1> SUFFICES ASSUME NEW i \in 0..(n - 1)
             PROVE  IF Age(n, next, i) < (upto + 1) - from
                    THEN after[i] = <<p, (upto + 1) - Age(n, next, i)>>
                    ELSE ~Real(after[i])
  BY DEF Holds
<1>1. CASE i = next
  <2>1. Age(n, next, i) = 0 /\ (upto + 1) - 0 = upto + 1 /\ 0 < (upto + 1) - from
    BY <1>1 DEF Age
  <2>2. QED
    BY <1>1, <2>1
<1>2. CASE i # next
  <2>1. /\ Age(n, next, i) = Age(n, t, i) + 1
        /\ Age(n, t, i) \in 0..(n - 1)
    BY <1>2 DEF Age
  <2>2. /\ Age(n, next, i) < (upto + 1) - from <=> Age(n, t, i) < upto - from
        /\ (upto + 1) - Age(n, next, i) = upto - Age(n, t, i)
    BY <2>1
  <2>3. QED
    BY <1>2, <2>2 DEF Holds
<1>3. QED
  BY <1>1, <1>2

\* The real records of a ring are those of the history.
LEMMA HistoryIs ==
    ASSUME NEW n \in Nat \ {0}, NEW p \in Pid \cup {NoPid}, NEW from \in Nat, NEW upto \in Nat,
           from <= upto
    PROVE  \A r : r \in Members(History(n, p, from, upto)) <=>
                     \E a \in 0..(n - 1) : a < upto - from /\ r = <<p, upto - a>>
<1> DEFINE m == IF upto - from < n THEN upto - from ELSE n
<1>1. m \in Nat /\ m <= n /\ m <= upto - from /\ (m = n \/ m = upto - from)
  OBVIOUS
<1>2. History(n, p, from, upto) = [i \in 1..m |-> <<p, upto - m + i>>]
  BY DEF History
<1>3. \A r : r \in Members(History(n, p, from, upto)) <=> \E i \in 1..m : r = <<p, upto - m + i>>
  <2>1. /\ DOMAIN History(n, p, from, upto) = 1..m
        /\ \A i \in 1..m : History(n, p, from, upto)[i] = <<p, upto - m + i>>
    BY <1>2
  <2> DEFINE h == History(n, p, from, upto)
  <2> HIDE DEF h, m
  <2>2. DOMAIN h = 1..m /\ \A i \in 1..m : h[i] = <<p, upto - m + i>>
    BY <2>1 DEF h
  <2>3. \A r : r \in Members(h) <=> \E i \in 1..m : r = h[i]
    BY <2>2 DEF Members
  <2>4. \A r : r \in Members(h) <=> \E i \in 1..m : r = <<p, upto - m + i>>
    BY ONLY <2>2, <2>3
  <2>5. QED
    BY <2>4 DEF h
<1> HIDE DEF m
<1>4. ASSUME NEW i \in 1..m
      PROVE  m - i \in 0..(n - 1) /\ m - i < upto - from /\ upto - m + i = upto - (m - i)
  BY <1>1
<1>5. ASSUME NEW a \in 0..(n - 1), a < upto - from
      PROVE  m - a \in 1..m /\ upto - m + (m - a) = upto - a
  BY <1>1, <1>5
<1>6. ASSUME NEW r, NEW i \in 1..m, r = <<p, upto - m + i>>
      PROVE  \E a \in 0..(n - 1) : a < upto - from /\ r = <<p, upto - a>>
  BY <1>4, <1>6
<1>7. ASSUME NEW r, NEW a \in 0..(n - 1), a < upto - from, r = <<p, upto - a>>
      PROVE  \E i \in 1..m : r = <<p, upto - m + i>>
  BY <1>5, <1>7
<1>8. QED
  BY <1>3, <1>6, <1>7

InRing(entries, n) == {entries[i] : i \in 0..(n - 1)}

LEMMA HoldsHistory ==
    ASSUME NEW n, NEW t, NEW entries, NEW p, NEW from, NEW upto,
           n \in Nat \ {0}, t \in 0..(n - 1), p \in Pid \cup {NoPid}, from \in Nat, upto \in Nat,
           from <= upto, p \in Pid \/ from = upto, Holds(entries, n, t, p, from, upto)
    PROVE  /\ \A i \in 0..(n - 1) : Real(entries[i]) <=> Age(n, t, i) < upto - from
           /\ RealOf(InRing(entries, n)) = Members(History(n, p, from, upto))
<1>1. ASSUME NEW i \in 0..(n - 1)  PROVE Real(entries[i]) <=> Age(n, t, i) < upto - from
  <2>1. CASE Age(n, t, i) < upto - from
    <3>1. Age(n, t, i) \in 0..(n - 1)
      BY AgeRange
    <3>2. upto - Age(n, t, i) \in Nat /\ p \in Pid
      BY <2>1, <3>1
    <3>3. QED
      BY <2>1, <3>2, BranchIsReal DEF Holds
  <2>2. CASE ~(Age(n, t, i) < upto - from)
    BY <2>2 DEF Holds
  <2>3. QED
    BY <2>1, <2>2
<1>2. ASSUME NEW i \in 0..(n - 1), Real(entries[i])
      PROVE  entries[i] \in Members(History(n, p, from, upto))
  <2>1. Age(n, t, i) \in 0..(n - 1) /\ Age(n, t, i) < upto - from
    BY <1>1, <1>2, AgeRange
  <2>2. entries[i] = <<p, upto - Age(n, t, i)>>
    BY <2>1 DEF Holds
  <2>3. \E a \in 0..(n - 1) : a < upto - from /\ entries[i] = <<p, upto - a>>
    BY <2>1, <2>2
  <2>4. QED
    BY <2>3, HistoryIs
<1>3. ASSUME NEW r \in Members(History(n, p, from, upto))
      PROVE  \E i \in 0..(n - 1) : Real(entries[i]) /\ r = entries[i]
  <2>1. PICK a \in 0..(n - 1) : a < upto - from /\ r = <<p, upto - a>>
    BY HistoryIs
  <2>2. PICK i \in 0..(n - 1) : Age(n, t, i) = a
    <3> DEFINE j == IF a <= t THEN t - a ELSE t - a + n
    <3>1. j \in 0..(n - 1) /\ Age(n, t, j) = a
      BY DEF Age
    <3>2. QED
      BY <3>1
  <2>3. entries[i] = r /\ Real(entries[i])
    BY <1>1, <2>1, <2>2 DEF Holds
  <2>4. QED
    BY <2>3
<1>4. QED
  BY <1>1, <1>2, <1>3 DEF RealOf, InRing

----------------------------------------------------------------------------
(* The LBR engine: each process' records are the last of its history.      *)

LEMMA RingFacts ==
    ASSUME RingTypeOK
    PROVE  /\ capacity \in Nat \ {0} /\ capacity <= MaxLen /\ Slot = 0..(capacity - 1)
           /\ run \in Pid /\ tos \in Slot /\ slots \in [Slot -> Records] /\ Empty \in Records
           /\ \A p \in Traced : /\ p \in Pid /\ Current(p).tos \in Slot
                                /\ Current(p).entries \in [Slot -> Records]
<1>1. /\ capacity \in Nat \ {0} /\ capacity <= MaxLen /\ Slot = 0..(capacity - 1)
      /\ run \in Pid /\ tos \in Slot /\ slots \in [Slot -> Records] /\ Empty \in Records
  <2>1. capacity \in Capacities
    BY DEF RingTypeOK
  <2>2. capacity \in Nat \ {0} /\ capacity <= MaxLen
    BY <2>1
  <2>3. run \in Pid /\ tos \in Slot /\ slots \in [Slot -> Records]
    BY DEF RingTypeOK
  <2>4. Empty \in Records
    BY DEF Records
  <2>5. QED
    BY <2>2, <2>3, <2>4 DEF Slot
<1>2. ASSUME NEW p \in Traced
      PROVE  p \in Pid /\ Current(p).tos \in Slot /\ Current(p).entries \in [Slot -> Records]
  <2>1. CASE p = run
    BY <1>1, <1>2, <2>1 DEF RingTypeOK, Current
  <2>2. CASE p # run
    BY <1>1, <1>2, <2>2 DEF RingTypeOK, Current
  <2>3. QED
    BY <2>1, <2>2
<1>3. QED
  BY <1>1, <1>2

\* A branch of the running process can be recorded.
LEMMA BranchIsRecord ==
    ASSUME NEW p \in Pid, NEW k \in 1..MaxBranches[p]
    PROVE  <<p, k>> \in Records
<1> DEFINE S == {p} \X (1..MaxBranches[p])
<1>1. <<p, k>> \in S
  OBVIOUS
<1>2. S \in {{q} \X (1..MaxBranches[q]) : q \in Pid}
  OBVIOUS
<1> HIDE DEF S
<1>3. QED
  BY <1>1, <1>2 DEF Records

LEMMA NextTosIs ==
    ASSUME RingTypeOK
    PROVE  NextTos \in Slot /\ NextTos = IF tos + 1 < capacity THEN tos + 1 ELSE 0
<1>1. capacity \in Nat \ {0} /\ tos \in 0..(capacity - 1) /\ 1 \in 0..capacity
  BY RingFacts
<1>2. (tos + 1) % capacity = IF tos + 1 < capacity THEN tos + 1 ELSE tos + 1 - capacity
  BY <1>1, Wraps
<1>3. QED
  BY <1>1, <1>2, RingFacts DEF NextTos

LEMMA CurrentIs ==
    /\ Current(run).tos = tos /\ Current(run).entries = slots
    /\ \A p : p # run => Current(p) = saved[p]
BY DEF Current

\* Only what is current of a process matters.
LEMMA RingStays ==
    ASSUME NEW p, RingHolds(p), UNCHANGED capacity, Current(p)'.tos = Current(p).tos,
           Current(p)'.entries = Current(p).entries, since'[p] = since[p], count'[p] = count[p]
    PROVE  RingHolds(p)'
BY DEF RingHolds, Holds

LEMMA SwitchLbrKeeps ==
    ASSUME RingTypeOK, RingsFollow, NEW p \in Pid, p # run, run' = p, UNCHANGED count, SwitchLbr(p)
    PROVE  RingTypeOK' /\ RingsFollow' /\ Traced' = Traced
<1> USE RingFacts
<1>1. UNCHANGED <<capacity, since>> /\ Slot' = Slot
  BY DEF SwitchLbr, Slot
<1>2. /\ Traced' = Traced
      /\ \A q \in Traced : saved'[q] = IF q = run THEN [tos |-> tos, entries |-> slots] ELSE saved[q]
  BY DEF SwitchLbr, AfterGet, Traced
<1>3. \A q \in Traced : saved'[q] = Current(q)
  BY <1>2 DEF Current
<1>4. /\ on' <=> p \in Traced
      /\ p \in Traced => tos' = saved[p].tos /\ slots' = saved[p].entries
      /\ p \notin Traced => UNCHANGED <<tos, slots>>
  BY DEF SwitchLbr, Put, RingsFollow
<1>5. \A q \in Traced : Current(q)'.tos = Current(q).tos /\ Current(q)'.entries = Current(q).entries
  BY <1>3, <1>4 DEF Current
<1>6. RingsFollow'
  BY <1>1, <1>2, <1>4, <1>5, RingStays DEF RingsFollow
<1>7. RingTypeOK'
  <2>1. tos' \in Slot /\ slots' \in [Slot -> Records]
    BY <1>4 DEF RingTypeOK
  <2>2. ASSUME NEW q \in Traced
        PROVE  saved'[q] \in [tos : Slot, entries : [Slot -> Records]]
    <3>1. tos \in Slot /\ slots \in [Slot -> Records]
      OBVIOUS
    <3>2. CASE q = run
      BY <1>2, <3>1, <3>2
    <3>3. CASE q # run
      BY <1>2, <3>3 DEF RingTypeOK
    <3>4. QED
      BY <3>2, <3>3
  <2>3. on' \in BOOLEAN
    BY DEF SwitchLbr, Put, RingTypeOK
  <2>4. QED
    BY <1>1, <1>2, <2>1, <2>2, <2>3 DEF RingTypeOK
<1>8. QED
  BY <1>2, <1>6, <1>7

LEMMA RecordLbrKeeps ==
    ASSUME RingTypeOK, RingsFollow, UNCHANGED run, count[run] < MaxBranches[run],
           count' = [count EXCEPT ![run] = @ + 1], RecordLbr(<<run, count'[run]>>)
    PROVE  RingTypeOK' /\ RingsFollow' /\ Traced' = Traced
<1> USE RingFacts
<1>1. UNCHANGED <<capacity, on, saved, since>> /\ Slot' = Slot /\ Traced' = Traced
  BY DEF RecordLbr, Slot, Traced
<1>2. /\ count' \in [Pid -> Nat] /\ count'[run] = count[run] + 1
      /\ \A q \in Pid : q # run => count'[q] = count[q]
  BY DEF RingTypeOK
<1>3. NextTos \in Slot /\ NextTos = IF tos + 1 < capacity THEN tos + 1 ELSE 0
  BY NextTosIs
<1>4. on => tos' = NextTos /\ slots' = [slots EXCEPT ![NextTos] = <<run, count[run] + 1>>]
  BY <1>2 DEF RecordLbr
<1>5. <<run, count[run] + 1>> \in Records
  <2>1. MaxBranches[run] \in Nat /\ count[run] \in Nat
    BY DEF RingTypeOK
  <2>2. count[run] + 1 \in 1..MaxBranches[run]
    BY <2>1
  <2>3. QED
    BY <2>2, BranchIsRecord
<1>6. tos' \in Slot /\ slots' \in [Slot -> Records]
  <2>1. CASE on
    <3>1. tos' = NextTos /\ slots' = [slots EXCEPT ![NextTos] = <<run, count[run] + 1>>]
      BY <1>4, <2>1
    <3>2. QED
      BY <1>3, <1>5, <3>1
  <2>2. CASE ~on
    BY <2>2 DEF RecordLbr
  <2>3. QED
    BY <2>1, <2>2
<1>7. RingTypeOK'
  <2>1. \A q \in Pid : since'[q] <= count'[q] /\ count'[q] <= MaxBranches[q]
    <3>1. \A q \in Pid : /\ since[q] \in Nat /\ count[q] \in Nat /\ MaxBranches[q] \in Nat
                         /\ since[q] <= count[q] /\ count[q] <= MaxBranches[q]
      BY DEF RingTypeOK
    <3>2. QED
      BY <1>1, <1>2, <3>1
  <2>2. QED
    BY <1>1, <1>2, <1>6, <2>1 DEF RingTypeOK
<1>8. ASSUME NEW q \in Traced  PROVE RingHolds(q)'
  <2>1. CASE q # run
    BY <1>1, <1>2, <2>1, RingStays, CurrentIs DEF RingsFollow, Current
  <2>2. CASE q = run
    <3>1. Holds(slots, capacity, tos, run, since[run], count[run])
      BY <2>2, CurrentIs DEF RingsFollow, RingHolds
    <3>2. /\ slots'[NextTos] = <<run, count[run] + 1>>
          /\ \A i \in 0..(capacity - 1) : i # NextTos => slots'[i] = slots[i]
      BY <1>3, <1>4, <2>2 DEF RingsFollow
    <3>3. since[run] \in Nat /\ count[run] \in Nat /\ since[run] <= count[run]
      BY DEF RingTypeOK
    <3>4. Holds(slots', capacity, NextTos, run, since[run], count[run] + 1)
      <4>1. capacity \in Nat \ {0} /\ tos \in 0..(capacity - 1) /\ NextTos \in 0..(capacity - 1)
        BY <1>3
      <4> DEFINE after == slots'
                 later == count[run] + 1
      <4>2. /\ after[NextTos] = <<run, later>> /\ later = count[run] + 1
            /\ \A i \in 0..(capacity - 1) : i # NextTos => after[i] = slots[i]
        BY <3>2
      <4> HIDE DEF after, later
      <4>3. Holds(after, capacity, NextTos, run, since[run], later)
        BY ONLY <1>3, <3>1, <3>3, <4>1, <4>2, HoldsRecord
      <4>4. QED
        BY <4>3 DEF after, later
    <3>5. tos' = NextTos
      BY <1>4, <2>2 DEF RingsFollow
    <3>6. Current(run)'.tos = tos' /\ Current(run)'.entries = slots'
      BY DEF Current
    <3>7. QED
      BY <1>1, <1>2, <2>2, <3>4, <3>5, <3>6 DEF RingHolds
  <2>3. QED
    BY <2>1, <2>2
<1>9. QED
  BY <1>1, <1>7, <1>8 DEF RingsFollow

LEMMA EnableLbrKeeps ==
    ASSUME RingTypeOK, RingsFollow, UNCHANGED <<run, count>>, NEW p \in Pid, EnableLbr(p)
    PROVE  RingTypeOK' /\ RingsFollow' /\ Traced' = Traced \cup {p}
<1> USE RingFacts
<1>1. capacity' = capacity /\ Slot' = Slot /\ p \notin Traced
  BY DEF EnableLbr, Slot
<1>2. /\ Traced' = Traced \cup {p} /\ saved'[p] = EmptyData
      /\ \A q \in Traced : saved'[q] = saved[q]
  BY <1>1 DEF EnableLbr, Traced
<1>3. since' \in [Pid -> Nat] /\ since'[p] = count[p] /\ \A q \in Pid \ {p} : since'[q] = since[q]
  BY DEF EnableLbr, RingTypeOK
<1>4. EmptyData.tos \in Slot /\ EmptyData.entries = [i \in Slot |-> Empty]
  BY DEF EmptyData
<1>5. /\ p = run => on' = TRUE /\ tos' = EmptyData.tos /\ slots' = EmptyData.entries
      /\ p # run => UNCHANGED <<on, tos, slots>>
  BY DEF EnableLbr, Put
<1>6. RingHolds(p)'
  <2>1. Current(p)'.tos = EmptyData.tos /\ Current(p)'.entries = EmptyData.entries
    BY <1>2, <1>5 DEF Current
  <2>2. \A i \in 0..(capacity - 1) : ~Real(EmptyData.entries[i])
    BY <1>4, MemoryIsNotReal
  <2>3. count[p] \in Nat
    BY DEF RingTypeOK
  <2>4. Holds(EmptyData.entries, capacity, EmptyData.tos, p, count[p], count[p])
    BY <1>4, <2>2, <2>3, HoldsNothing
  <2>5. QED
    BY <1>1, <1>3, <2>1, <2>4 DEF RingHolds
<1>7. ASSUME NEW q \in Traced  PROVE RingHolds(q)'
  <2>1. q \in Pid /\ q # p
    BY <1>1
  <2>2. Current(q)'.tos = Current(q).tos /\ Current(q)'.entries = Current(q).entries
    BY <1>2, <1>5, <2>1 DEF Current
  <2>3. QED
    BY <1>1, <1>3, <2>1, <2>2, RingStays DEF RingsFollow
<1>8. RingsFollow'
  BY <1>2, <1>5, <1>6, <1>7 DEF RingsFollow
<1>9. RingTypeOK'
  <2>1. tos' \in Slot /\ slots' \in [Slot -> Records] /\ on' \in BOOLEAN
    <3>1. EmptyData.entries \in [Slot -> Records]
      BY <1>4
    <3>2. on \in BOOLEAN
      BY DEF RingTypeOK
    <3>3. QED
      BY <1>4, <1>5, <3>1, <3>2
  <2>2. ASSUME NEW q \in Traced'
        PROVE  saved'[q] \in [tos : Slot, entries : [Slot -> Records]]
    <3>1. CASE q = p
      BY <1>2, <3>1 DEF EmptyData
    <3>2. CASE q # p
      BY <1>2, <3>2 DEF RingTypeOK
    <3>3. QED
      BY <3>1, <3>2
  <2>3. \A q \in Pid : since'[q] <= count[q] /\ count[q] <= MaxBranches[q]
    <3>1. \A q \in Pid : /\ count[q] \in Nat /\ since[q] <= count[q]
                         /\ count[q] <= MaxBranches[q]
      BY DEF RingTypeOK
    <3>2. \A q \in Pid : since'[q] = count[q] \/ since'[q] = since[q]
      BY <1>3
    <3>3. QED
      BY <3>1, <3>2
  <2>4. QED
    BY <1>1, <1>2, <1>3, <2>1, <2>2, <2>3 DEF RingTypeOK
<1>10. QED
  BY <1>2, <1>8, <1>9

LEMMA DisableLbrKeeps ==
    ASSUME RingTypeOK, RingsFollow, UNCHANGED <<run, count>>, NEW p \in Pid, DisableLbr(p)
    PROVE  RingTypeOK' /\ RingsFollow' /\ Traced' = Traced \ {p}
<1> USE RingFacts
<1>1. UNCHANGED <<capacity, tos, slots, since>> /\ Slot' = Slot
  BY DEF DisableLbr, Slot
<1>2. Traced' = Traced \ {p} /\ \A q \in Traced \ {p} : saved'[q] = saved[q]
  BY DEF DisableLbr, Traced
<1>3. on' = (on /\ p # run)
  BY DEF DisableLbr
<1>4. \A q \in Traced' : RingHolds(q)'
  BY <1>1, <1>2, RingStays DEF RingsFollow, Current
<1>5. RingsFollow'
  BY <1>2, <1>3, <1>4 DEF RingsFollow
<1>6. RingTypeOK'
  <2>1. \A q \in Traced' : saved'[q] \in [tos : Slot, entries : [Slot -> Records]]
    BY <1>2 DEF RingTypeOK
  <2>2. QED
    BY <1>1, <1>2, <1>3, <2>1 DEF RingTypeOK
<1>7. QED
  BY <1>2, <1>5, <1>6

\* What a dump reads is current.
LEMMA FreshIsCurrent ==
    ASSUME RingTypeOK, NEW p \in Traced
    PROVE  /\ DOMAIN Fresh(p) = Traced /\ \A q \in Traced \ {p} : Fresh(p)[q] = saved[q]
           /\ Fresh(p)[p] = Current(p)
BY DEF Fresh, AfterGet, Current, Traced

LEMMA DumpLbrKeeps ==
    ASSUME RingTypeOK, RingsFollow, UNCHANGED <<run, count>>, NEW p, DumpLbr(p)
    PROVE  RingTypeOK' /\ RingsFollow' /\ Traced' = Traced
<1> USE RingFacts
<1>1. p \in Traced /\ UNCHANGED <<capacity, since>> /\ Slot' = Slot
  BY DEF DumpLbr, Slot
<1>2. /\ Traced' = Traced /\ saved'[p] = Current(p)
      /\ \A q \in Traced \ {p} : saved'[q] = saved[q]
  BY <1>1, FreshIsCurrent DEF DumpLbr, Traced
<1>3. UNCHANGED <<tos, slots>> /\ on' = on
  <2>1. CASE p = run
    BY <1>1, <2>1, FreshIsCurrent, CurrentIs DEF DumpLbr, Put, RingsFollow, RingTypeOK
  <2>2. CASE p # run
    BY <2>2 DEF DumpLbr
  <2>3. QED
    BY <2>1, <2>2
<1>4. ASSUME NEW q \in Traced
      PROVE  Current(q)'.tos = Current(q).tos /\ Current(q)'.entries = Current(q).entries
  BY <1>2, <1>3 DEF Current
<1>5. RingsFollow'
  BY <1>1, <1>2, <1>3, <1>4, RingStays DEF RingsFollow
<1>6. RingTypeOK'
  <2>1. ASSUME NEW q \in Traced'
        PROVE  saved'[q] \in [tos : Slot, entries : [Slot -> Records]]
    <3>1. CASE q = p /\ p = run
      BY <1>2, <3>1 DEF Current
    <3>2. CASE ~(q = p /\ p = run)
      BY <1>2, <3>2 DEF RingTypeOK, Current
    <3>3. QED
      BY <3>1, <3>2
  <2>2. QED
    BY <1>1, <1>2, <1>3, <2>1 DEF RingTypeOK
<1>7. QED
  BY <1>2, <1>5, <1>6

----------------------------------------------------------------------------
(* The BTS engine, the same.                                               *)

LEMMA NewestIs ==
    ASSUME NEW index \in Place
    PROVE  /\ Place = 0..(BtsLen - 1) /\ BtsLen \in Nat \ {0}
           /\ Newest(index) \in Place
           /\ index = IF Newest(index) + 1 < BtsLen THEN Newest(index) + 1 ELSE 0
           /\ (index + 1) % BtsLen \in Place /\ Newest((index + 1) % BtsLen) = index
<1>1. Place = 0..(BtsLen - 1) /\ BtsLen \in Nat \ {0} /\ index \in 0..(BtsLen - 1)
  BY DEF Place
<1>2. (index + 1) % BtsLen = IF index + 1 < BtsLen THEN index + 1 ELSE index + 1 - BtsLen
  <2>1. 1 \in 0..BtsLen
    BY <1>1
  <2>2. QED
    BY <1>1, <2>1, Wraps
<1>3. QED
  BY <1>1, <1>2 DEF Newest

LEMMA BtsFacts ==
    ASSUME BtsTypeOK
    PROVE  /\ \A p \in BtsTraced : /\ p \in Pid /\ p # NoPid /\ stored[p].index \in Place
                                   /\ stored[p].entries \in [Place -> Records \cup {Junk}]
           /\ area \in Pid \cup {NoPid} /\ btsSince \in [Pid -> Nat]
<1>1. \A p \in BtsTraced : p \in Pid /\ p # NoPid
  BY DEF BtsTypeOK
<1>2. QED
  BY <1>1 DEF BtsTypeOK

\* Only the area of a process matters.
LEMMA AreaStays ==
    ASSUME NEW p, AreaHolds(p), stored'[p].index = stored[p].index,
           stored'[p].entries = stored[p].entries, btsSince'[p] = btsSince[p], count'[p] = count[p]
    PROVE  AreaHolds(p)'
BY DEF AreaHolds, Holds, Newest

LEMMA SwitchBtsKeeps ==
    ASSUME BtsTypeOK, AreasFollow, NEW p \in Pid, run' = p, UNCHANGED count, SwitchBts(p)
    PROVE  BtsTypeOK' /\ AreasFollow' /\ BtsTraced' = BtsTraced
<1>1. UNCHANGED <<stored, btsSince>> /\ BtsTraced' = BtsTraced
  BY DEF SwitchBts, BtsTraced
<1>2. area' = IF p \in BtsTraced THEN p ELSE NoPid
  BY DEF SwitchBts, AreasFollow
<1>3. \A q \in BtsTraced : AreaHolds(q)'
  BY <1>1, AreaStays DEF AreasFollow
<1>4. QED
  BY <1>1, <1>2, <1>3 DEF AreasFollow, BtsTypeOK

LEMMA RecordBtsKeeps ==
    ASSUME RingTypeOK, BtsTypeOK, AreasFollow, UNCHANGED run, count[run] < MaxBranches[run],
           count' = [count EXCEPT ![run] = @ + 1], RecordBts(<<run, count'[run]>>)
    PROVE  BtsTypeOK' /\ AreasFollow' /\ BtsTraced' = BtsTraced
<1> DEFINE index == stored[run].index
           entries == stored[run].entries
           later == count[run] + 1
<1>1. /\ UNCHANGED <<area, btsSince>> /\ run \in Pid
      /\ area = IF run \in BtsTraced THEN run ELSE NoPid
  BY DEF RecordBts, AreasFollow, RingTypeOK
<1>2. /\ count' \in [Pid -> Nat] /\ count'[run] = later
      /\ \A q \in Pid : q # run => count'[q] = count[q]
  BY <1>1 DEF RingTypeOK
<1>3. later \in Nat /\ later - 1 = count[run] /\ <<run, later>> \in Records
  <2>1. MaxBranches[run] \in Nat /\ count[run] \in Nat
    BY <1>1 DEF RingTypeOK
  <2>2. later \in 1..MaxBranches[run]
    BY <2>1
  <2>3. QED
    BY <1>1, <2>1, <2>2, BranchIsRecord
<1>4. \A q \in Pid : btsSince'[q] <= count'[q]
  <2>1. \A q \in Pid : btsSince[q] \in Nat /\ count[q] \in Nat /\ btsSince[q] <= count[q]
    BY DEF BtsTypeOK, RingTypeOK
  <2>2. QED
    BY <1>1, <1>2, <2>1
<1>5. CASE run \notin BtsTraced
  <2>1. stored' = stored /\ BtsTraced' = BtsTraced
    BY <1>1, <1>5 DEF RecordBts, BtsTraced
  <2>2. \A q \in BtsTraced : AreaHolds(q)'
    BY <1>1, <1>2, <1>5, <2>1, AreaStays, BtsFacts DEF AreasFollow
  <2>3. QED
    BY <1>1, <1>4, <2>1, <2>2 DEF AreasFollow, BtsTypeOK
<1>6. CASE run \in BtsTraced
  <2>1. area = run /\ run # NoPid
    BY <1>1, <1>6, BtsFacts
  <2>2. index \in Place /\ entries \in [Place -> Records \cup {Junk}]
    BY <1>6, BtsFacts
  <2>3. stored' = [stored EXCEPT ![run].entries[index] = <<run, later>>,
                                 ![run].index = (@ + 1) % BtsLen]
    BY <1>2, <2>1 DEF RecordBts
  <2>4. BtsTraced' = BtsTraced /\ \A q \in BtsTraced \ {run} : stored'[q] = stored[q]
    BY <2>3 DEF BtsTraced
  <2>5. stored[run] \in [index : Place, entries : [Place -> Records \cup {Junk}]]
    BY <1>6 DEF BtsTypeOK
  <2>6. stored'[run] = [index |-> (index + 1) % BtsLen,
                        entries |-> [entries EXCEPT ![index] = <<run, later>>]]
    BY <1>6, <2>3, <2>5 DEF BtsTraced
  <2> HIDE DEF index, entries, later
  <2>7. (index + 1) % BtsLen \in Place /\ Newest((index + 1) % BtsLen) = index
    BY <2>2, NewestIs
  <2>8. AreaHolds(run)'
    <3> DEFINE after == [entries EXCEPT ![index] = <<run, later>>]
               newest == Newest(index)
    <3>1. Holds(entries, BtsLen, newest, run, btsSince[run], count[run])
      BY <1>6 DEF AreasFollow, AreaHolds, index, entries
    <3>2. /\ newest \in 0..(BtsLen - 1) /\ index \in 0..(BtsLen - 1) /\ BtsLen \in Nat \ {0}
          /\ index = IF newest + 1 < BtsLen THEN newest + 1 ELSE 0
      BY <2>2, NewestIs
    <3>3. /\ after[index] = <<run, later>>
          /\ \A i \in 0..(BtsLen - 1) : i # index => after[i] = entries[i]
      BY <2>2, <3>2 DEF Place
    <3>4. /\ btsSince[run] \in Nat /\ count[run] \in Nat /\ btsSince[run] <= count[run]
          /\ later = count[run] + 1
      BY <1>1 DEF BtsTypeOK, RingTypeOK, later
    <3> HIDE DEF after, newest
    <3>5. Holds(after, BtsLen, index, run, btsSince[run], later)
      BY ONLY <1>3, <3>1, <3>2, <3>3, <3>4, HoldsRecord
    <3>6. stored'[run].entries = after /\ Newest(stored'[run].index) = index
      BY <2>6, <2>7 DEF after
    <3>7. QED
      BY <1>1, <1>2, <3>5, <3>6 DEF AreaHolds, Newest
  <2>9. \A q \in BtsTraced \ {run} : AreaHolds(q)'
    BY <1>1, <1>2, <2>4, AreaStays, BtsFacts DEF AreasFollow
  <2>10. \A q \in BtsTraced : stored'[q] \in [index : Place, entries : [Place -> Records \cup {Junk}]]
    <3>1. [entries EXCEPT ![index] = <<run, later>>] \in [Place -> Records \cup {Junk}]
      BY <1>3, <2>2
    <3>2. stored'[run] \in [index : Place, entries : [Place -> Records \cup {Junk}]]
      BY <2>6, <2>7, <3>1
    <3>3. QED
      BY <2>4, <3>2 DEF BtsTypeOK
  <2>11. QED
    BY <1>1, <1>4, <2>4, <2>8, <2>9, <2>10 DEF AreasFollow, BtsTypeOK
<1>7. QED
  BY <1>5, <1>6

LEMMA EnableBtsKeeps ==
    ASSUME RingTypeOK, BtsTypeOK, AreasFollow, UNCHANGED <<run, count>>, NEW p \in Pid, EnableBts(p)
    PROVE  BtsTypeOK' /\ AreasFollow' /\ BtsTraced' = BtsTraced \cup {p}
<1>1. /\ BtsTraced' = BtsTraced \cup {p} /\ stored'[p] = NewArea /\ p \notin BtsTraced
      /\ \A q \in BtsTraced : stored'[q] = stored[q]
  BY DEF EnableBts, BtsTraced
<1>2. /\ btsSince' \in [Pid -> Nat] /\ btsSince'[p] = count[p] /\ count[p] \in Nat
      /\ \A q \in Pid \ {p} : btsSince'[q] = btsSince[q]
  BY DEF EnableBts, BtsTypeOK, RingTypeOK
<1>3. area' = IF run \in BtsTraced' THEN run ELSE NoPid
  BY <1>1 DEF EnableBts, AreasFollow
<1>4. /\ NewArea.index = 0 /\ 0 \in Place /\ NewArea.entries = [i \in Place |-> Junk]
      /\ NewArea \in [index : Place, entries : [Place -> Records \cup {Junk}]]
  BY DEF NewArea, Place
<1>5. AreaHolds(p)'
  <2>1. Newest(0) \in 0..(BtsLen - 1) /\ BtsLen \in Nat \ {0}
    BY <1>4, NewestIs DEF Place
  <2>2. \A i \in 0..(BtsLen - 1) : ~Real(NewArea.entries[i])
    BY <1>4, MemoryIsNotReal DEF Place
  <2>3. Holds(NewArea.entries, BtsLen, Newest(0), p, count[p], count[p])
    BY <1>2, <2>1, <2>2, HoldsNothing
  <2>4. QED
    BY <1>1, <1>2, <1>4, <2>3 DEF AreaHolds, Newest
<1>6. \A q \in BtsTraced : AreaHolds(q)'
  BY <1>1, <1>2, AreaStays, BtsFacts DEF AreasFollow
<1>7. \A q \in Pid : btsSince'[q] <= count'[q]
  <2>1. \A q \in Pid : count[q] \in Nat /\ btsSince[q] <= count[q]
    BY DEF BtsTypeOK, RingTypeOK
  <2>2. \A q \in Pid : btsSince'[q] = count[q] \/ btsSince'[q] = btsSince[q]
    BY <1>2
  <2>3. QED
    BY <2>1, <2>2
<1>8. BtsTypeOK'
  <2>1. BtsTraced' \subseteq Pid /\ area' \in Pid \cup {NoPid}
    BY <1>1, <1>3 DEF BtsTypeOK
  <2>2. \A q \in BtsTraced' : stored'[q] \in [index : Place, entries : [Place -> Records \cup {Junk}]]
    BY <1>1, <1>4 DEF BtsTypeOK
  <2>3. QED
    BY <1>2, <1>7, <2>1, <2>2 DEF BtsTypeOK
<1>9. QED
  BY <1>1, <1>3, <1>5, <1>6, <1>8 DEF AreasFollow

LEMMA DisableBtsKeeps ==
    ASSUME BtsTypeOK, AreasFollow, UNCHANGED <<run, count>>, NEW p, DisableBts(p)
    PROVE  BtsTypeOK' /\ AreasFollow' /\ BtsTraced' = BtsTraced \ {p}
<1>1. /\ BtsTraced' = BtsTraced \ {p} /\ btsSince' = btsSince
      /\ \A q \in BtsTraced \ {p} : stored'[q] = stored[q]
  BY DEF DisableBts, BtsTraced
<1>2. area' = IF run \in BtsTraced' THEN run ELSE NoPid
  BY <1>1 DEF DisableBts, AreasFollow
<1>3. \A q \in BtsTraced' : AreaHolds(q)'
  BY <1>1, AreaStays DEF AreasFollow
<1>4. BtsTypeOK'
  BY <1>1, <1>2, BtsFacts DEF BtsTypeOK
<1>5. QED
  BY <1>1, <1>2, <1>3, <1>4 DEF AreasFollow

----------------------------------------------------------------------------
(* The debuggers' buffers.                                                 *)

LEMMA SlotIsIndex ==
    ASSUME RingTypeOK
    PROVE  Slot \subseteq Index /\ 0 \in Slot /\ 0 \in Index
<1>1. capacity \in Nat \ {0} /\ capacity <= MaxLen /\ MaxLen \in Nat
  BY RingFacts
<1>2. QED
  BY <1>1 DEF Slot, Index

BufferTypeOK ==
    buffer \in [tos : Index, entries : [Index -> Records \cup {Junk}], since : Nat, upto : Nat]
BtsBufferTypeOK ==
    btsBuffer \in [index : Place, entries : [Place -> Records \cup {Junk}],
                   since : Nat, upto : Nat]

LEMMA NewBufferHolds ==
    ASSUME RingTypeOK, UNCHANGED capacity, buffer' = NewBuffer
    PROVE  BufferTypeOK' /\ BufferHolds'
<1>1. /\ Slot \subseteq Index /\ 0 \in Slot /\ 0 \in Index /\ Slot = 0..(capacity - 1)
      /\ capacity \in Nat \ {0} /\ Slot' = Slot
  BY SlotIsIndex, RingFacts DEF Slot
<1>2. /\ buffer'.tos = 0 /\ buffer'.since = 0 /\ buffer'.upto = 0
      /\ buffer'.entries = [i \in Index |-> Junk]
  BY DEF NewBuffer
<1>3. BufferTypeOK'
  BY <1>1 DEF BufferTypeOK, NewBuffer
<1>4. \A i \in 0..(capacity - 1) : ~Real(buffer'.entries[i])
  BY <1>1, <1>2, MemoryIsNotReal
<1>5. Holds(buffer'.entries, capacity, 0, req'["lbr"], 0, 0)
  BY <1>1, <1>4, HoldsNothing
<1>6. QED
  BY <1>1, <1>2, <1>3, <1>5 DEF BufferHolds

LEMMA NewBtsBufferHolds ==
    ASSUME btsBuffer' = NewBtsBuffer
    PROVE  BtsBufferTypeOK' /\ BtsBufferHolds'
<1>1. 0 \in Place /\ Place = 0..(BtsLen - 1) /\ BtsLen \in Nat \ {0} /\ Newest(0) \in Place
  <2>1. 0 \in Place
    BY DEF Place
  <2>2. QED
    BY <2>1, NewestIs
<1>2. /\ btsBuffer'.index = 0 /\ btsBuffer'.since = 0 /\ btsBuffer'.upto = 0
      /\ btsBuffer'.entries = [i \in Place |-> Junk]
  BY DEF NewBtsBuffer, NewArea
<1>3. BtsBufferTypeOK'
  BY <1>1 DEF BtsBufferTypeOK, NewBtsBuffer, NewArea
<1>4. \A i \in 0..(BtsLen - 1) : ~Real(btsBuffer'.entries[i])
  BY <1>1, <1>2, MemoryIsNotReal
<1>5. Holds(btsBuffer'.entries, BtsLen, Newest(0), req'["bts"], 0, 0)
  BY <1>1, <1>4, HoldsNothing
<1>6. QED
  BY <1>2, <1>3, <1>5 DEF BtsBufferHolds, Newest

LEMMA BuffersStay ==
    ASSUME BufferTypeOK, BufferHolds, UNCHANGED <<buffer, capacity>>, req'["lbr"] = req["lbr"]
    PROVE  BufferTypeOK' /\ BufferHolds'
BY DEF BufferTypeOK, BufferHolds, Holds, Slot

LEMMA BtsBuffersStay ==
    ASSUME BtsBufferTypeOK, BtsBufferHolds, UNCHANGED btsBuffer, req'["bts"] = req["bts"]
    PROVE  BtsBufferTypeOK' /\ BtsBufferHolds'
BY DEF BtsBufferTypeOK, BtsBufferHolds, Holds, Newest

\* A dump fills the buffer with what the ring holds.
LEMMA CopiedHolds ==
    ASSUME RingTypeOK, RingsFollow, BufferTypeOK, BufferHolds, UNCHANGED <<capacity, req>>,
           req["lbr"] \in Traced, buffer' = Copied(req["lbr"], buffer)
    PROVE  BufferTypeOK' /\ BufferHolds'
<1> DEFINE p == req["lbr"]
           entries == Current(p).entries
<1>1. /\ p \in Pid /\ Current(p).tos \in Slot /\ entries \in [Slot -> Records]
      /\ Slot \subseteq Index /\ Slot = 0..(capacity - 1) /\ Slot' = Slot
  BY RingFacts, SlotIsIndex DEF Slot
<1>2. since[p] \in Nat /\ count[p] \in Nat /\ since[p] <= count[p]
  BY <1>1 DEF RingTypeOK
<1>3. Fresh(p)[p] = Current(p) /\ DOMAIN buffer.entries = Index
  BY FreshIsCurrent DEF BufferTypeOK
<1> DEFINE after == [i \in Index |-> IF i \in Slot THEN entries[i] ELSE buffer.entries[i]]
<1>4. buffer' = [tos |-> Current(p).tos, entries |-> after, since |-> since[p], upto |-> count[p]]
  BY <1>3 DEF Copied, BufferTypeOK
<1>5. after \in [Index -> Records \cup {Junk}]
  BY <1>1 DEF BufferTypeOK
<1>6. BufferTypeOK'
  BY <1>1, <1>2, <1>4, <1>5 DEF BufferTypeOK
<1>7. Holds(entries, capacity, Current(p).tos, p, since[p], count[p])
  BY DEF RingsFollow, RingHolds
<1>8. /\ \A i \in 0..(capacity - 1) : after[i] = entries[i]
      /\ \A i \in Index \ Slot : after[i] = Junk
  BY <1>1 DEF BufferHolds
<1>9. Holds(after, capacity, Current(p).tos, p, since[p], count[p])
  BY <1>7, <1>8 DEF Holds
<1> HIDE DEF after
<1>10. QED
  BY <1>1, <1>2, <1>4, <1>6, <1>8, <1>9 DEF BufferHolds

LEMMA CopiedAreaHolds ==
    ASSUME RingTypeOK, BtsTypeOK, AreasFollow, UNCHANGED req,
           req["bts"] \in BtsTraced, btsBuffer' = CopiedArea(req["bts"])
    PROVE  BtsBufferTypeOK' /\ BtsBufferHolds'
<1> DEFINE p == req["bts"]
<1>1. /\ p \in Pid /\ stored[p].index \in Place
      /\ stored[p].entries \in [Place -> Records \cup {Junk}]
      /\ btsSince[p] \in Nat /\ count[p] \in Nat /\ btsSince[p] <= count[p]
  BY BtsFacts DEF BtsTypeOK, RingTypeOK
<1>2. AreaHolds(p)
  BY DEF AreasFollow
<1>3. btsBuffer' = [index |-> stored[p].index, entries |-> stored[p].entries,
                    since |-> btsSince[p], upto |-> count[p]]
  BY DEF CopiedArea
<1>4. BtsBufferTypeOK'
  BY <1>1, <1>3 DEF BtsBufferTypeOK
<1>5. QED
  BY <1>1, <1>2, <1>3, <1>4 DEF BtsBufferHolds, AreaHolds, Newest

----------------------------------------------------------------------------
(* What a command does to the engines.                                     *)

EnginesHold == RingTypeOK /\ BtsTypeOK /\ RingsFollow /\ AreasFollow
BuffersHold == BufferTypeOK /\ BtsBufferTypeOK /\ BufferHolds /\ BtsBufferHolds
ClientTypeOK == req \in [Engine -> Pid \cup {NoPid}] /\ enabled \in [Engine -> BOOLEAN]

LEMMA InvIs ==
    Inv <=> /\ EnginesHold /\ BuffersHold /\ ClientTypeOK
            /\ LibTypeOK /\ HandlesApart /\ Released
BY DEF Inv, TypeOK, InvRecords, EnginesHold, BuffersHold, ClientTypeOK, BufferTypeOK,
       BtsBufferTypeOK

LEMMA InvAfter ==
    ASSUME EnginesHold', BuffersHold', ClientTypeOK', LibTypeOK', HandlesApart', Released'
    PROVE  Inv'
BY InvIs, PTL

LEMMA TracedByIs == TracedBy("lbr") = Traced /\ TracedBy("bts") = BtsTraced
BY DEF TracedBy

LEMMA RingsUnchanged ==
    ASSUME RingTypeOK, RingsFollow, UNCHANGED <<run, count, lbr>>
    PROVE  RingTypeOK' /\ RingsFollow' /\ Traced' = Traced
<1>1. Traced' = Traced /\ Slot' = Slot
  BY DEF Traced, Slot, lbr
<1>2. RingTypeOK'
  BY <1>1 DEF RingTypeOK, lbr
<1>3. \A p \in Traced : RingHolds(p)'
  BY RingStays DEF RingsFollow, Current, lbr
<1>4. QED
  BY <1>1, <1>2, <1>3 DEF RingsFollow, lbr

LEMMA AreasUnchanged ==
    ASSUME BtsTypeOK, AreasFollow, UNCHANGED <<run, count, bts>>
    PROVE  BtsTypeOK' /\ AreasFollow' /\ BtsTraced' = BtsTraced
<1>1. BtsTraced' = BtsTraced
  BY DEF BtsTraced, bts
<1>2. \A p \in BtsTraced : AreaHolds(p)'
  BY AreaStays DEF AreasFollow, bts
<1>3. QED
  BY <1>1, <1>2 DEF AreasFollow, BtsTypeOK, bts

LEMMA EnginesUnchanged ==
    ASSUME EnginesHold, UNCHANGED <<run, count, lbr, bts>>
    PROVE  EnginesHold' /\ capacity' = capacity /\ \A e \in Engine : TracedBy(e)' = TracedBy(e)
BY RingsUnchanged, AreasUnchanged DEF EnginesHold, TracedBy, lbr

LEMMA InsertKeeps ==
    ASSUME EnginesHold, UNCHANGED <<run, count>>, NEW e \in Engine, NEW p \in Pid, Insert(e, p)
    PROVE  /\ EnginesHold' /\ capacity' = capacity
           /\ TracedBy(e)' \subseteq TracedBy(e) \cup {p}
           /\ \A f \in Engine \ {e} : TracedBy(f)' = TracedBy(f)
<1>1. CASE e = "lbr" /\ EnableLbr(p) /\ UNCHANGED bts
  <2>1. EnginesHold' /\ Traced' = Traced \cup {p} /\ BtsTraced' = BtsTraced
    BY <1>1, EnableLbrKeeps, AreasUnchanged DEF EnginesHold
  <2>2. capacity' = capacity
    BY <1>1 DEF EnableLbr
  <2>3. QED
    BY <1>1, <2>1, <2>2 DEF TracedBy
<1>2. CASE e = "bts" /\ EnableBts(p) /\ UNCHANGED lbr
  <2>1. EnginesHold' /\ BtsTraced' = BtsTraced \cup {p} /\ Traced' = Traced
    BY <1>2, EnableBtsKeeps, RingsUnchanged DEF EnginesHold
  <2>2. capacity' = capacity
    BY <1>2 DEF lbr
  <2>3. QED
    BY <1>2, <2>1, <2>2 DEF TracedBy
<1>3. CASE UNCHANGED <<lbr, bts>>
  BY <1>3, EnginesUnchanged
<1>4. QED
  BY <1>1, <1>2, <1>3 DEF Insert

LEMMA RemoveKeeps ==
    ASSUME EnginesHold, UNCHANGED <<run, count>>, NEW e \in Engine, NEW p \in Pid, Remove(e, p)
    PROVE  /\ EnginesHold' /\ capacity' = capacity
           /\ TracedBy(e)' = TracedBy(e) \ {p}
           /\ \A f \in Engine \ {e} : TracedBy(f)' = TracedBy(f)
<1>1. CASE e = "lbr" /\ DisableLbr(p) /\ UNCHANGED bts
  <2>1. EnginesHold' /\ Traced' = Traced \ {p} /\ BtsTraced' = BtsTraced
    BY <1>1, DisableLbrKeeps, AreasUnchanged DEF EnginesHold
  <2>2. capacity' = capacity
    BY <1>1 DEF DisableLbr
  <2>3. QED
    BY <1>1, <2>1, <2>2 DEF TracedBy
<1>2. CASE e = "bts" /\ DisableBts(p) /\ UNCHANGED lbr
  <2>1. EnginesHold' /\ BtsTraced' = BtsTraced \ {p} /\ Traced' = Traced
    BY <1>2, DisableBtsKeeps, RingsUnchanged DEF EnginesHold
  <2>2. capacity' = capacity
    BY <1>2 DEF lbr
  <2>3. QED
    BY <1>2, <2>1, <2>2 DEF TracedBy
<1>3. CASE p \notin TracedBy(e) /\ UNCHANGED <<lbr, bts>>
  BY <1>3, EnginesUnchanged
<1>4. QED
  BY <1>1, <1>2, <1>3 DEF Remove

----------------------------------------------------------------------------
(* The commands.                                                           *)

\* An open gives a handle that nobody has, or none.
LEMMA OpenIs ==
    ASSUME LibTypeOK, NEW e \in Engine, Open(e)
    PROVE  /\ LibTypeOK' /\ port' = port /\ handle' = [handle EXCEPT ![e] = handle'[e]]
           /\ \/ /\ handle'[e] \in 1..MaxHandles /\ handle'[e] \notin open
                 /\ open' = open \cup {handle'[e]} /\ failed' = failed
              \/ handle'[e] = INVALID /\ failed' /\ open' = open
<1>1. CASE \E h \in (1..MaxHandles) \ open :
             open' = open \cup {h} /\ handle' = [handle EXCEPT ![e] = h] /\ UNCHANGED failed
  <2>1. PICK h \in (1..MaxHandles) \ open :
             open' = open \cup {h} /\ handle' = [handle EXCEPT ![e] = h] /\ UNCHANGED failed
    BY <1>1
  <2>2. h \in INVALID..MaxHandles /\ handle'[e] = h
    BY <2>1 DEF LibTypeOK, INVALID
  <2>3. port' = port
    BY DEF Open
  <2>4. QED
    BY <2>1, <2>2, <2>3 DEF LibTypeOK
<1>2. CASE handle' = [handle EXCEPT ![e] = INVALID] /\ failed' = TRUE /\ UNCHANGED open
  <2>1. INVALID \in INVALID..MaxHandles /\ handle'[e] = INVALID
    BY <1>2 DEF LibTypeOK, INVALID
  <2>2. port' = port
    BY DEF Open
  <2>3. QED
    BY <1>2, <2>1, <2>2 DEF LibTypeOK
<1>3. QED
  BY <1>1, <1>2 DEF Open

LEMMA NoHandleIsInvalid == LibTypeOK => INVALID \notin open
BY DEF LibTypeOK, INVALID

LEMMA EnableKeeps ==
    ASSUME Inv, NEW e \in Engine, NEW pid \in Pid \cup {NoPid}, Enable(e, pid)
    PROVE  Inv'
<1> DEFINE p == Target(pid)
<1>1. p \in Pid /\ UNCHANGED <<run, count>>
  BY DEF Target, Enable
<1>2. /\ EnginesHold /\ BuffersHold /\ ClientTypeOK /\ LibTypeOK /\ HandlesApart /\ Released
  BY InvIs
<1>3. /\ EnginesHold' /\ capacity' = capacity
      /\ TracedBy(e)' \subseteq (IF handle'[e] \in open' THEN TracedBy(e) \cup {p} ELSE TracedBy(e))
      /\ \A f \in Engine \ {e} : TracedBy(f)' = TracedBy(f)
  <2>1. CASE Reaches(handle[e])'
    BY <1>1, <1>2, <2>1, InsertKeeps DEF Enable, Reaches
  <2>2. CASE ~Reaches(handle[e])'
    BY <1>1, <1>2, <2>2, EnginesUnchanged DEF Enable, Reaches
  <2>3. QED
    BY <2>1, <2>2
<1>4. /\ LibTypeOK' /\ port' = port
      /\ \A f \in Engine \ {e} : handle'[f] = handle[f]
      /\ \/ /\ handle'[e] \in 1..MaxHandles /\ handle'[e] \notin open
            /\ open' = open \cup {handle'[e]} /\ failed' = failed
         \/ handle'[e] = INVALID /\ failed' /\ open' = open
  <2>1. Open(e)
    BY DEF Enable
  <2>2. QED
    BY <1>2, <2>1, OpenIs DEF LibTypeOK
<1>5. /\ req'[e] = p /\ enabled'[e] = TRUE /\ ClientTypeOK'
      /\ \A f \in Engine \ {e} : req'[f] = req[f] /\ enabled'[f] = enabled[f]
  BY <1>1, <1>2 DEF Enable, ClientTypeOK
<1>6. BuffersHold'
  <2>1. BufferTypeOK' /\ BufferHolds'
    <3>1. CASE e = "lbr"
      BY <1>2, <1>3, <3>1, NewBufferHolds DEF Enable, EnginesHold
    <3>2. CASE e # "lbr"
      BY <1>2, <1>3, <1>5, <3>2, BuffersStay DEF Enable, BuffersHold
    <3>3. QED
      BY <3>1, <3>2
  <2>2. BtsBufferTypeOK' /\ BtsBufferHolds'
    <3>1. CASE e = "lbr"
      BY <1>2, <1>5, <3>1, BtsBuffersStay DEF Enable, BuffersHold
    <3>2. CASE e # "lbr"
      BY <3>2, NewBtsBufferHolds DEF Enable
    <3>3. QED
      BY <3>1, <3>2
  <2>3. QED
    BY <2>1, <2>2 DEF BuffersHold
<1>7. port = "windbg" => ~enabled[e]
  BY <1>2 DEF Enable, GoesOn, ClientTypeOK
<1>8. HandlesApart'
  <2> SUFFICES ASSUME port = "windbg"  PROVE HandlesApart'
    BY <1>4 DEF HandlesApart
  <2>1. ASSUME NEW f \in Engine, enabled'[f]
        PROVE  handle'[f] \in open' \cup {INVALID}
    BY <1>2, <1>4, <1>5, <2>1 DEF HandlesApart
  <2>2. ASSUME NEW f \in Engine, f # e, enabled'[f], handle'[f] = handle'[e]
        PROVE  handle'[e] = INVALID
    <3>1. handle[f] \in open \cup {INVALID}
      BY <1>2, <1>5, <2>2 DEF HandlesApart
    <3>2. QED
      BY <1>4, <2>2, <3>1
  <2>3. ASSUME NEW e1 \in Engine, NEW e2 \in Engine, e1 # e2, enabled'[e1], enabled'[e2],
               handle'[e1] = handle'[e2]
        PROVE  handle'[e1] = INVALID
    BY <1>2, <1>4, <1>5, <2>2, <2>3 DEF HandlesApart
  <2>4. ASSUME NEW h \in open'
        PROVE  \E f \in Engine : enabled'[f] /\ handle'[f] = h
    <3>1. CASE h \in open
      <4>1. PICK f \in Engine : enabled[f] /\ handle[f] = h
        BY <1>2, <3>1 DEF HandlesApart
      <4>2. QED
        BY <1>4, <1>5, <1>7, <4>1
    <3>2. CASE h \notin open
      BY <1>4, <1>5, <2>4, <3>2
    <3>3. QED
      BY <3>1, <3>2
  <2>5. QED
    BY <2>1, <2>3, <2>4 DEF HandlesApart
<1>9. Released'
  <2>1. ASSUME NEW f \in Engine, port = "windbg"
        PROVE  TracedBy(f)' \subseteq (IF enabled'[f] /\ handle'[f] \in open' THEN {req'[f]} ELSE {})
    <3>1. CASE f = e
      <4>1. TracedBy(e) \subseteq {}
        BY <1>2, <1>7, <2>1 DEF Released
      <4>2. QED
        BY <1>3, <1>5, <3>1, <4>1
    <3>2. CASE f # e
      BY <1>2, <1>3, <1>4, <1>5, <2>1, <3>2 DEF Released, Reaches
    <3>3. QED
      BY <3>1, <3>2
  <2>2. ASSUME NEW f \in Engine, port = "gdb", ~failed'
        PROVE  IF enabled'[f] THEN handle'[f] \in open' ELSE req'[f] \notin TracedBy(f)'
    <3>1. ~failed
      BY <1>4, <2>2
    <3>2. CASE f = e
      BY <1>4, <1>5, <2>2, <3>2
    <3>3. CASE f # e
      BY <1>2, <1>3, <1>4, <1>5, <2>2, <3>1, <3>3 DEF Released, Reaches
    <3>4. QED
      BY <3>2, <3>3
  <2>3. QED
    BY <1>4, <2>1, <2>2 DEF Released, Reaches
<1>10. QED
  BY <1>3, <1>4, <1>5, <1>6, <1>8, <1>9, InvAfter

LEMMA DisableKeeps ==
    ASSUME Inv, NEW e \in Engine, Disable(e)
    PROVE  Inv'
<1> DEFINE p == req[e]
<1>1. /\ EnginesHold /\ BuffersHold /\ ClientTypeOK /\ LibTypeOK /\ HandlesApart /\ Released
  BY InvIs
<1>2. p \in Pid /\ UNCHANGED <<run, count, req, buffer, btsBuffer>>
  BY <1>1 DEF Disable, ClientTypeOK
<1>3. /\ EnginesHold' /\ capacity' = capacity
      /\ IF handle[e] \in open THEN TracedBy(e)' = TracedBy(e) \ {p} ELSE TracedBy(e)' = TracedBy(e)
      /\ \A f \in Engine \ {e} : TracedBy(f)' = TracedBy(f)
  <2>1. CASE Reaches(handle[e])
    BY <1>1, <1>2, <2>1, RemoveKeeps DEF Disable, Reaches
  <2>2. CASE ~Reaches(handle[e])
    BY <1>1, <1>2, <2>2, EnginesUnchanged DEF Disable, Reaches
  <2>3. QED
    BY <2>1, <2>2
<1>4. /\ port' = port /\ failed' = failed
      /\ \/ port = "gdb" /\ handle' = [handle EXCEPT ![e] = 0] /\ open' = open
         \/ port = "windbg" /\ open' = open \ {handle[e]} /\ handle' = handle
  BY DEF Disable, Close, Forget, CloseHandle
<1>5. LibTypeOK'
  <2>1. 0 \in INVALID..MaxHandles
    BY DEF INVALID
  <2>2. QED
    BY <1>1, <1>4, <2>1 DEF LibTypeOK
<1>6. /\ enabled'[e] = FALSE /\ ClientTypeOK'
      /\ \A f \in Engine \ {e} : enabled'[f] = enabled[f]
  BY <1>1, <1>2 DEF Disable, ClientTypeOK
<1>7. BuffersHold'
  BY <1>1, <1>2, <1>3, BuffersStay, BtsBuffersStay DEF BuffersHold
<1>8. port = "windbg" => enabled[e]
  BY <1>1 DEF Disable, GoesOn, ClientTypeOK
\* The handle that is closed is not another engine's.
<1>9. ASSUME port = "windbg", NEW f \in Engine \ {e}, enabled[f], handle[f] \in open
      PROVE  handle[f] \in open'
  <2>1. handle[f] # handle[e]
    BY <1>1, <1>8, <1>9, NoHandleIsInvalid DEF HandlesApart
  <2>2. QED
    BY <1>4, <1>9, <2>1
<1>10. HandlesApart'
  <2> SUFFICES ASSUME port = "windbg"  PROVE HandlesApart'
    BY <1>4 DEF HandlesApart
  <2>1. handle' = handle /\ open' = open \ {handle[e]}
    BY <1>4
  <2>2. ASSUME NEW f \in Engine, enabled'[f]
        PROVE  handle'[f] \in open' \cup {INVALID}
    BY <1>1, <1>6, <1>9, <2>1, <2>2 DEF HandlesApart
  <2>3. ASSUME NEW h \in open'
        PROVE  \E f \in Engine : enabled'[f] /\ handle'[f] = h
    <3>1. PICK f \in Engine : enabled[f] /\ handle[f] = h
      BY <1>1, <2>1, <2>3 DEF HandlesApart
    <3>2. QED
      BY <1>6, <2>1, <2>3, <3>1
  <2>4. ASSUME NEW e1 \in Engine, NEW e2 \in Engine, e1 # e2, enabled'[e1], enabled'[e2],
               handle'[e1] = handle'[e2]
        PROVE  handle'[e1] = INVALID
    BY <1>1, <1>6, <2>1, <2>4 DEF HandlesApart
  <2>5. QED
    BY <2>2, <2>3, <2>4 DEF HandlesApart
<1>11. Released'
  <2>1. ASSUME NEW f \in Engine, port = "windbg"
        PROVE  TracedBy(f)' \subseteq (IF enabled'[f] /\ handle'[f] \in open' THEN {req'[f]} ELSE {})
    <3>1. CASE f = e
      <4>1. TracedBy(e) \subseteq (IF handle[e] \in open THEN {p} ELSE {})
        BY <1>1, <1>8, <2>1 DEF Released, Reaches
      <4>2. QED
        BY <1>3, <3>1, <4>1
    <3>2. CASE f # e
      <4>1. TracedBy(f) \subseteq (IF enabled[f] /\ handle[f] \in open THEN {req[f]} ELSE {})
        BY <1>1, <2>1 DEF Released, Reaches
      <4>2. handle'[f] = handle[f]
        BY <1>4, <2>1
      <4>3. QED
        BY <1>2, <1>3, <1>6, <1>9, <2>1, <3>2, <4>1, <4>2
    <3>3. QED
      BY <3>1, <3>2
  <2>2. ASSUME NEW f \in Engine, port = "gdb", ~failed'
        PROVE  IF enabled'[f] THEN handle'[f] \in open' ELSE req'[f] \notin TracedBy(f)'
    <3>1. ~failed /\ IF enabled[f] THEN handle[f] \in open ELSE req[f] \notin TracedBy(f)
      BY <1>1, <1>4, <2>2 DEF Released, Reaches
    <3>2. CASE f = e
      BY <1>2, <1>3, <1>6, <3>1, <3>2
    <3>3. CASE f # e
      <4>1. handle'[f] = handle[f] /\ open' = open
        BY <1>1, <1>4, <2>2, <3>3 DEF LibTypeOK
      <4>2. QED
        BY <1>2, <1>3, <1>6, <3>1, <3>3, <4>1
    <3>4. QED
      BY <3>2, <3>3
  <2>3. QED
    BY <1>4, <2>1, <2>2 DEF Released, Reaches
<1>12. QED
  BY <1>3, <1>5, <1>6, <1>7, <1>10, <1>11, InvAfter

\* Handles, flags and what is traced stay as they are.
LEMMA ReleasedStays ==
    ASSUME ClientTypeOK, LibTypeOK, HandlesApart, Released, UNCHANGED <<lib, req, enabled>>,
           \A e \in Engine : TracedBy(e)' = TracedBy(e)
    PROVE  ClientTypeOK' /\ LibTypeOK' /\ HandlesApart' /\ Released'
<1>1. ClientTypeOK' /\ LibTypeOK' /\ HandlesApart'
  BY DEF ClientTypeOK, LibTypeOK, HandlesApart, lib
<1>2. Released'
  BY DEF Released, Reaches, lib
<1>3. QED
  BY <1>1, <1>2

LEMMA DumpKeeps ==
    ASSUME Inv, NEW e \in Engine, Dump(e)
    PROVE  Inv'
<1>1. /\ EnginesHold /\ BuffersHold /\ ClientTypeOK /\ LibTypeOK /\ HandlesApart /\ Released
  BY InvIs
<1>2. req[e] \in TracedBy(e) /\ UNCHANGED <<run, count, lib, req, enabled>>
  BY DEF Dump
<1>3. CASE e = "lbr" /\ DumpLbr(req[e]) /\ buffer' = Copied(req[e], buffer) /\ UNCHANGED <<bts, btsBuffer>>
  <2>1. EnginesHold' /\ Traced' = Traced /\ BtsTraced' = BtsTraced
    BY <1>1, <1>2, <1>3, DumpLbrKeeps, AreasUnchanged DEF EnginesHold
  <2>2. capacity' = capacity
    BY <1>3 DEF DumpLbr
  <2>3. BufferTypeOK' /\ BufferHolds'
    BY <1>1, <1>2, <1>3, <2>2, CopiedHolds, TracedByIs DEF EnginesHold, BuffersHold
  <2>4. BtsBufferTypeOK' /\ BtsBufferHolds'
    BY <1>1, <1>2, <1>3, BtsBuffersStay DEF BuffersHold
  <2>5. \A f \in Engine : TracedBy(f)' = TracedBy(f)
    BY <2>1 DEF TracedBy
  <2>6. QED
    BY <1>1, <1>2, <2>1, <2>3, <2>4, <2>5, ReleasedStays, InvAfter DEF BuffersHold
<1>4. CASE e = "bts" /\ btsBuffer' = CopiedArea(req[e]) /\ UNCHANGED <<lbr, bts, buffer>>
  <2>1. EnginesHold' /\ capacity' = capacity /\ \A f \in Engine : TracedBy(f)' = TracedBy(f)
    BY <1>1, <1>2, <1>4, EnginesUnchanged
  <2>2. BufferTypeOK' /\ BufferHolds'
    BY <1>1, <1>2, <1>4, <2>1, BuffersStay DEF BuffersHold
  <2>3. BtsBufferTypeOK' /\ BtsBufferHolds'
    BY <1>1, <1>2, <1>4, CopiedAreaHolds, TracedByIs DEF EnginesHold
  <2>4. QED
    BY <1>1, <1>2, <2>1, <2>2, <2>3, ReleasedStays, InvAfter DEF BuffersHold
<1>5. QED
  BY <1>3, <1>4 DEF Dump

----------------------------------------------------------------------------
(* What happens between the commands.                                      *)

LEMMA SwitchKeeps ==
    ASSUME Inv, NEW p \in Pid, Switch(p)
    PROVE  Inv'
<1>1. /\ EnginesHold /\ BuffersHold /\ ClientTypeOK /\ LibTypeOK /\ HandlesApart /\ Released
  BY InvIs
<1>2. /\ p # run /\ run' = p /\ SwitchLbr(p) /\ SwitchBts(p)
      /\ UNCHANGED <<count, lib, req, enabled, buffer, btsBuffer>>
  BY DEF Switch, client
<1>3. EnginesHold' /\ Traced' = Traced /\ BtsTraced' = BtsTraced
  BY <1>1, <1>2, SwitchLbrKeeps, SwitchBtsKeeps DEF EnginesHold
<1>4. capacity' = capacity
  BY <1>2 DEF SwitchLbr
<1>5. BuffersHold'
  BY <1>1, <1>2, <1>4, BuffersStay, BtsBuffersStay DEF BuffersHold
<1>6. \A f \in Engine : TracedBy(f)' = TracedBy(f)
  BY <1>3 DEF TracedBy
<1>7. QED
  BY <1>1, <1>2, <1>3, <1>5, <1>6, ReleasedStays, InvAfter

LEMMA BranchKeeps ==
    ASSUME Inv, Branch
    PROVE  Inv'
<1>1. /\ EnginesHold /\ BuffersHold /\ ClientTypeOK /\ LibTypeOK /\ HandlesApart /\ Released
  BY InvIs
<1>2. /\ count[run] < MaxBranches[run] /\ count' = [count EXCEPT ![run] = @ + 1]
      /\ RecordLbr(<<run, count'[run]>>) /\ RecordBts(<<run, count'[run]>>)
      /\ UNCHANGED <<run, lib, req, enabled, buffer, btsBuffer>>
  BY DEF Branch, client
<1>3. EnginesHold' /\ Traced' = Traced /\ BtsTraced' = BtsTraced
  BY <1>1, <1>2, RecordLbrKeeps, RecordBtsKeeps DEF EnginesHold
<1>4. capacity' = capacity
  BY <1>2 DEF RecordLbr
<1>5. BuffersHold'
  BY <1>1, <1>2, <1>4, BuffersStay, BtsBuffersStay DEF BuffersHold
<1>6. \A f \in Engine : TracedBy(f)' = TracedBy(f)
  BY <1>3 DEF TracedBy
<1>7. QED
  BY <1>1, <1>2, <1>3, <1>5, <1>6, ReleasedStays, InvAfter

LEMMA NextInv == Inv /\ [Next]_vars => Inv'
<1> SUFFICES ASSUME Inv, [Next]_vars  PROVE Inv'
  OBVIOUS
<1>1. ASSUME NEW e \in Engine, NEW pid \in (Pid \ {Self}) \cup {NoPid}, Enable(e, pid)
      PROVE  Inv'
  BY <1>1, EnableKeeps
<1>2. ASSUME NEW e \in Engine, Disable(e)  PROVE Inv'
  BY <1>2, DisableKeeps
<1>3. ASSUME NEW e \in Engine, Dump(e)  PROVE Inv'
  BY <1>3, DumpKeeps
<1>4. CASE Branch
  BY <1>4, BranchKeeps
<1>5. ASSUME NEW p \in Pid, Switch(p)  PROVE Inv'
  BY <1>5, SwitchKeeps
<1>6. CASE UNCHANGED vars
  <2>1. /\ EnginesHold /\ BuffersHold /\ ClientTypeOK /\ LibTypeOK /\ HandlesApart /\ Released
    BY InvIs
  <2>2. UNCHANGED <<run, count, lbr, bts, lib, req, enabled, buffer, btsBuffer>>
    BY <1>6 DEF vars, client
  <2>3. EnginesHold' /\ capacity' = capacity /\ \A e \in Engine : TracedBy(e)' = TracedBy(e)
    BY <2>1, <2>2, EnginesUnchanged
  <2>4. BuffersHold'
    BY <2>1, <2>2, <2>3, BuffersStay, BtsBuffersStay DEF BuffersHold
  <2>5. QED
    BY <2>1, <2>2, <2>3, <2>4, ReleasedStays, InvAfter
<1>7. QED
  BY <1>1, <1>2, <1>3, <1>4, <1>5, <1>6 DEF Next, Command

LEMMA InitInv == Init => Inv
<1> SUFFICES ASSUME Init  PROVE Inv
  OBVIOUS
<1>1. /\ RingInit /\ BtsInit /\ LibInit
      /\ req = [e \in Engine |-> NoPid] /\ enabled = [e \in Engine |-> FALSE]
      /\ buffer = NewBuffer /\ btsBuffer = NewBtsBuffer
  BY DEF Init
<1>2. Traced = {} /\ BtsTraced = {}
  BY <1>1 DEF RingInit, BtsInit, Traced, BtsTraced
<1>3. capacity \in Nat \ {0} /\ capacity <= MaxLen
  BY <1>1 DEF RingInit
<1>4. Slot = 0..(capacity - 1) /\ 0 \in Slot /\ Slot \subseteq Index /\ 0 \in Index
  BY <1>3 DEF Slot, Index
<1>5. RingTypeOK
  <2>1. /\ capacity \in Capacities /\ run \in Pid /\ on = FALSE /\ tos = 0
        /\ slots = [i \in Slot |-> Empty] /\ count = [p \in Pid |-> 0] /\ since = [p \in Pid |-> 0]
    BY <1>1 DEF RingInit
  <2>2. slots \in [Slot -> Records]
    BY <2>1 DEF Records
  <2>3. \A p \in Pid : since[p] <= count[p] /\ count[p] <= MaxBranches[p]
    <3> SUFFICES ASSUME NEW p \in Pid
                 PROVE  since[p] <= count[p] /\ count[p] <= MaxBranches[p]
      OBVIOUS
    <3>1. since[p] = 0 /\ count[p] = 0
      BY <2>1
    <3>2. MaxBranches[p] \in Nat
      OBVIOUS
    <3>3. since[p] <= count[p]
      BY ONLY <3>1
    <3>4. count[p] <= MaxBranches[p]
      BY ONLY <3>1, <3>2
    <3>5. QED
      BY <3>3, <3>4
  <2>4. QED
    BY <1>2, <1>4, <2>1, <2>2, <2>3 DEF RingTypeOK
<1>6. BtsTypeOK
  BY <1>1, <1>2 DEF BtsTypeOK, BtsInit, RingInit
<1>7. LibTypeOK
  <2>1. 0 \in INVALID..MaxHandles
    BY DEF INVALID
  <2>2. QED
    BY <1>1, <2>1 DEF LibTypeOK, LibInit
<1>8. EnginesHold
  BY <1>1, <1>2, <1>5, <1>6 DEF EnginesHold, RingsFollow, AreasFollow, RingInit, BtsInit
<1>9. BufferTypeOK /\ BufferHolds
  <2>1. BufferTypeOK
    BY <1>1, <1>4 DEF BufferTypeOK, NewBuffer
  <2>2. \A i \in Index : buffer.entries[i] = Junk
    BY <1>1 DEF NewBuffer
  <2>3. buffer.tos = 0 /\ buffer.since = 0 /\ buffer.upto = 0
    BY <1>1 DEF NewBuffer
  <2>4. \A i \in 0..(capacity - 1) : ~Real(buffer.entries[i])
    BY <1>4, <2>2, MemoryIsNotReal
  <2>5. Holds(buffer.entries, capacity, 0, req["lbr"], 0, 0)
    BY <1>3, <1>4, <2>4, HoldsNothing
  <2>6. Holds(buffer.entries, capacity, buffer.tos, req["lbr"], buffer.since, buffer.upto)
    BY <2>3, <2>5
  <2>7. buffer.tos \in Slot /\ buffer.since <= buffer.upto /\ buffer.since = buffer.upto
    BY <1>4, <2>3
  <2>8. QED
    BY <2>1, <2>2, <2>6, <2>7 DEF BufferHolds
<1>10. BtsBufferTypeOK /\ BtsBufferHolds
  <2>1. 0 \in Place /\ Place = 0..(BtsLen - 1)
    BY DEF Place
  <2>2. BtsBufferTypeOK
    BY <1>1, <2>1 DEF BtsBufferTypeOK, NewBtsBuffer, NewArea
  <2>3. /\ btsBuffer.index = 0 /\ btsBuffer.since = 0 /\ btsBuffer.upto = 0
        /\ btsBuffer.entries = [i \in Place |-> Junk]
    BY <1>1 DEF NewBtsBuffer, NewArea
  <2>4. \A i \in 0..(BtsLen - 1) : ~Real(btsBuffer.entries[i])
    BY <2>1, <2>3, MemoryIsNotReal
  <2>5. Newest(0) \in 0..(BtsLen - 1) /\ BtsLen \in Nat \ {0}
    BY <2>1, NewestIs
  <2>6. Holds(btsBuffer.entries, BtsLen, Newest(0), req["bts"], 0, 0)
    BY <2>4, <2>5, HoldsNothing
  <2>7. QED
    BY <2>2, <2>3, <2>6 DEF BtsBufferHolds
<1>11. ClientTypeOK /\ HandlesApart
  BY <1>1 DEF ClientTypeOK, HandlesApart, LibInit
<1>12. Released
  <2>1. \A e \in Engine : TracedBy(e) = {}
    BY <1>2 DEF TracedBy
  <2>2. QED
    BY <1>1, <2>1 DEF Released
<1>13. QED
  BY <1>7, <1>8, <1>9, <1>10, <1>11, <1>12, InvIs DEF BuffersHold

LEMMA SpecInv == Spec => []Inv
<1>1. QED
  BY InitInv, NextInv, PTL DEF Spec

----------------------------------------------------------------------------
(* What is printed.                                                        *)

\* Which slot a line of the plugin's shows.
LEMMA LineIs ==
    ASSUME NEW t \in Index, NEW i \in 1..MaxLen
    PROVE  /\ (t + i) % MaxLen = IF t + i < MaxLen THEN t + i ELSE t + i - MaxLen
           /\ (t + i) % MaxLen \in Index
<1>1. MaxLen \in Nat \ {0} /\ t \in 0..(MaxLen - 1) /\ i \in 0..MaxLen
  BY DEF Index
<1>2. (t + i) % MaxLen = IF t + i < MaxLen THEN t + i ELSE t + i - MaxLen
  BY <1>1, Wraps
<1>3. QED
  BY <1>1, <1>2 DEF Index

\* Together the lines show every slot.
LEMMA LinesShowAll ==
    ASSUME BufferTypeOK
    PROVE  Members(Turned(buffer)) = {buffer.entries[k] : k \in Index}
<1> DEFINE t == buffer.tos
           lines == Turned(buffer)
<1>1. t \in Index /\ MaxLen \in Nat \ {0} /\ Index = 0..(MaxLen - 1)
  BY DEF BufferTypeOK, Index
<1>2. /\ DOMAIN lines = 1..MaxLen
      /\ \A i \in 1..MaxLen : lines[i] = buffer.entries[(t + i) % MaxLen]
  BY DEF Turned
<1> HIDE DEF t, lines
<1>3. ASSUME NEW i \in 1..MaxLen  PROVE lines[i] \in {buffer.entries[k] : k \in Index}
  BY <1>1, <1>2, LineIs
<1>4. ASSUME NEW k \in Index  PROVE \E i \in 1..MaxLen : lines[i] = buffer.entries[k]
  <2> DEFINE i == IF k > t THEN k - t ELSE k - t + MaxLen
  <2>1. i \in 1..MaxLen /\ k = IF t + i < MaxLen THEN t + i ELSE t + i - MaxLen
    BY <1>1
  <2> HIDE DEF i
  <2>2. (t + i) % MaxLen = k
    BY <1>1, <2>1, LineIs
  <2>3. QED
    BY <1>2, <2>1, <2>2
<1>5. Members(lines) = {buffer.entries[k] : k \in Index}
  BY <1>2, <1>3, <1>4 DEF Members
<1>6. QED
  BY <1>5 DEF lines

\* What dumps have left in the buffers is the history's.
LEMMA BufferShows ==
    ASSUME ClientTypeOK, RingTypeOK, BufferTypeOK, BufferHolds
    PROVE  /\ \A k \in Index : Real(buffer.entries[k]) =>
                 /\ k \in Slot /\ Age(capacity, buffer.tos, k) \in Nat
                 /\ Age(capacity, buffer.tos, k) < buffer.upto - buffer.since
                 /\ buffer.entries[k] =
                       <<req["lbr"], buffer.upto - Age(capacity, buffer.tos, k)>>
           /\ RealOf({buffer.entries[k] : k \in Slot})
                 = Members(History(capacity, req["lbr"], buffer.since, buffer.upto))
           /\ RealOf({buffer.entries[k] : k \in Index})
                 = RealOf({buffer.entries[k] : k \in Slot})
<1> DEFINE entries == buffer.entries
           from == buffer.since
           upto == buffer.upto
           t == buffer.tos
           p == req["lbr"]
<1>1. /\ capacity \in Nat \ {0} /\ t \in 0..(capacity - 1) /\ Slot = 0..(capacity - 1)
      /\ p \in Pid \cup {NoPid} /\ from \in Nat /\ upto \in Nat /\ from <= upto /\ (p \in Pid \/ from = upto)
      /\ Holds(entries, capacity, t, p, from, upto)
      /\ Slot \subseteq Index /\ \A k \in Index \ Slot : entries[k] = Junk
  BY RingFacts, SlotIsIndex DEF BufferHolds, BufferTypeOK, ClientTypeOK
<1> HIDE DEF entries, from, upto, t, p
<1>2. /\ \A k \in Slot : Real(entries[k]) <=> Age(capacity, t, k) < upto - from
      /\ RealOf({entries[k] : k \in Slot}) = Members(History(capacity, p, from, upto))
  <2>1. /\ \A k \in 0..(capacity - 1) : Real(entries[k]) <=> Age(capacity, t, k) < upto - from
        /\ RealOf(InRing(entries, capacity)) = Members(History(capacity, p, from, upto))
    BY <1>1, HoldsHistory
  <2>2. QED
    BY <1>1, <2>1 DEF InRing
<1>3. ASSUME NEW k \in Index, Real(entries[k])
      PROVE  /\ k \in Slot /\ Age(capacity, t, k) \in Nat /\ Age(capacity, t, k) < upto - from
             /\ entries[k] = <<p, upto - Age(capacity, t, k)>>
  <2>1. k \in Slot
    BY <1>1, <1>3, MemoryIsNotReal
  <2>2. Age(capacity, t, k) \in Nat
    BY <1>1, <2>1, AgeRange
  <2>3. QED
    BY <1>1, <1>2, <1>3, <2>1, <2>2 DEF Holds
<1>4. RealOf({entries[k] : k \in Index}) = RealOf({entries[k] : k \in Slot})
  BY <1>1, <1>3 DEF RealOf
<1>5. QED
  BY <1>2, <1>3, <1>4 DEF entries, from, upto, t, p

\* A later line shows a younger record.
LEMMA LaterIsYounger ==
    ASSUME NEW n \in Nat \ {0}, NEW m \in Nat \ {0}, NEW t \in 0..(n - 1),
           NEW i \in 1..m, NEW j \in 1..m, i < j,
           NEW k \in 0..(n - 1), k = IF t + i < m THEN t + i ELSE t + i - m,
           NEW l \in 0..(n - 1), l = IF t + j < m THEN t + j ELSE t + j - m
    PROVE  Age(n, t, l) < Age(n, t, k)
<1>1. CASE t + j < m
  BY <1>1 DEF Age
<1>2. CASE t + i < m /\ ~(t + j < m)
  BY <1>2 DEF Age
<1>3. CASE ~(t + i < m)
  BY <1>3 DEF Age
<1>4. QED
  BY <1>1, <1>2, <1>3

LEMMA LinesInOrder ==
    ASSUME ClientTypeOK, RingTypeOK, BufferTypeOK, BufferHolds, NEW i \in 1..MaxLen, NEW j \in 1..MaxLen, i < j,
           Real(Turned(buffer)[i]), Real(Turned(buffer)[j])
    PROVE  Turned(buffer)[i][2] < Turned(buffer)[j][2]
<1> DEFINE t == buffer.tos
           k == (t + i) % MaxLen
           l == (t + j) % MaxLen
           upto == buffer.upto
<1>1. /\ MaxLen \in Nat \ {0} /\ t \in Index /\ Index = 0..(MaxLen - 1) /\ upto \in Nat
      /\ capacity \in Nat \ {0} /\ t \in 0..(capacity - 1) /\ Slot = 0..(capacity - 1)
  BY RingFacts DEF BufferTypeOK, BufferHolds, Index
<1>2. Turned(buffer)[i] = buffer.entries[k] /\ Turned(buffer)[j] = buffer.entries[l]
  BY DEF Turned
<1>3. /\ k = IF t + i < MaxLen THEN t + i ELSE t + i - MaxLen
      /\ l = IF t + j < MaxLen THEN t + j ELSE t + j - MaxLen
      /\ k \in Index /\ l \in Index
  BY <1>1, LineIs
<1> HIDE DEF k, l, upto
<1>4. /\ k \in Slot /\ buffer.entries[k] = <<req["lbr"], upto - Age(capacity, t, k)>>
      /\ l \in Slot /\ buffer.entries[l] = <<req["lbr"], upto - Age(capacity, t, l)>>
      /\ Age(capacity, t, k) \in Nat /\ Age(capacity, t, l) \in Nat
  BY <1>2, <1>3, BufferShows DEF upto
<1> HIDE DEF t
<1>5. Age(capacity, t, l) < Age(capacity, t, k)
  BY <1>1, <1>3, <1>4, LaterIsYounger
<1>6. Turned(buffer)[i][2] = upto - Age(capacity, t, k) /\ Turned(buffer)[j][2] = upto - Age(capacity, t, l)
  BY <1>2, <1>4
<1>7. upto - Age(capacity, t, k) < upto - Age(capacity, t, l)
  BY ONLY <1>1, <1>4, <1>5
<1>8. QED
  BY <1>6, <1>7

LEMMA BtsBufferShows ==
    ASSUME ClientTypeOK, BtsBufferTypeOK, BtsBufferHolds
    PROVE  RealOf(All(btsBuffer))
              = Members(History(BtsLen, req["bts"], btsBuffer.since, btsBuffer.upto))
<1> DEFINE entries == btsBuffer.entries
           from == btsBuffer.since
           upto == btsBuffer.upto
           newest == Newest(btsBuffer.index)
           p == req["bts"]
<1>1. /\ BtsLen \in Nat \ {0} /\ Place = 0..(BtsLen - 1) /\ newest \in 0..(BtsLen - 1)
      /\ p \in Pid \cup {NoPid}
      /\ from \in Nat /\ upto \in Nat /\ from <= upto /\ (p \in Pid \/ from = upto)
      /\ Holds(entries, BtsLen, newest, p, from, upto)
  <2>1. btsBuffer.index \in Place
    BY DEF BtsBufferTypeOK
  <2>2. QED
    BY <2>1, NewestIs DEF BtsBufferTypeOK, BtsBufferHolds, ClientTypeOK
<1> HIDE DEF entries, from, upto, newest, p
<1>2. RealOf(InRing(entries, BtsLen)) = Members(History(BtsLen, p, from, upto))
  BY <1>1, HoldsHistory
<1>3. QED
  BY <1>1, <1>2 DEF All, InRing, entries, from, upto, p

LEMMA InvPrints == Inv => PrintedIsHistory
<1> SUFFICES ASSUME Inv  PROVE PrintedIsHistory
  OBVIOUS
<1>1. /\ ClientTypeOK /\ RingTypeOK /\ BufferTypeOK /\ BufferHolds /\ BtsBufferTypeOK /\ BtsBufferHolds
  BY InvIs DEF EnginesHold, BuffersHold
<1> DEFINE ofLbr == History(capacity, req["lbr"], buffer.since, buffer.upto)
           ofBts == History(BtsLen, req["bts"], btsBuffer.since, btsBuffer.upto)
<1>2. RealOf(Members(Turned(buffer))) = Members(ofLbr)
  BY <1>1, LinesShowAll, BufferShows
<1>3. InOrder(Turned(buffer), ofLbr)
  <2>1. DOMAIN Turned(buffer) = 1..MaxLen
    BY DEF Turned
  <2>2. QED
    BY <1>1, <1>2, <2>1, LinesInOrder DEF InOrder
<1>4. RealOf(All(btsBuffer)) = Members(ofBts)
  BY <1>1, BtsBufferShows
<1>5. RealOf(Below(buffer)) \subseteq Members(ofLbr)
  <2>1. 0..(buffer.tos - 1) \subseteq Slot
    BY <1>1, RingFacts DEF BufferHolds
  <2>2. Below(buffer) \subseteq {buffer.entries[k] : k \in Slot}
    BY <2>1 DEF Below
  <2>3. QED
    BY <1>1, <2>2, BufferShows DEF RealOf
<1>6. RealOf(First(btsBuffer)) \subseteq Members(ofBts)
  <2>1. 0..(Shown - 1) \subseteq Place
    BY DEF Place
  <2>2. First(btsBuffer) \subseteq All(btsBuffer)
    BY <2>1 DEF First, All
  <2>3. QED
    BY <1>4, <2>2 DEF RealOf
<1>7. QED
  BY <1>3, <1>4, <1>5, <1>6 DEF PrintedIsHistory

LEMMA InvReleases == Inv => ReleasesItsOwn
BY InvIs DEF Released, ReleasesItsOwn

LEMMA InvOwned == Inv => HandlesOwned
<1> DEFINE live == {e \in Engine : enabled[e] /\ handle[e] # INVALID}
<1> SUFFICES ASSUME Inv, port = "windbg"
             PROVE  open = {handle[e] : e \in live} /\ Cardinality(open) = Cardinality(live)
  BY DEF HandlesOwned
<1>1. LibTypeOK /\ HandlesApart
  BY InvIs
<1>2. open = {handle[e] : e \in live}
  <2>1. \A e \in live : handle[e] \in open
    BY <1>1 DEF HandlesApart
  <2>2. \A h \in open : \E e \in live : handle[e] = h
    BY <1>1, NoHandleIsInvalid DEF HandlesApart
  <2>3. QED
    BY <2>1, <2>2
<1>3. live \subseteq {"lbr", "bts"}
  OBVIOUS
<1>4. ("lbr" \in live /\ "bts" \in live) => handle["lbr"] # handle["bts"]
  BY <1>1 DEF HandlesApart
<1> HIDE DEF live
<1>5. CASE live = {}
  BY <1>2, <1>5
<1>6. ASSUME NEW e, live = {e}  PROVE Cardinality(open) = Cardinality(live)
  <2>1. open = {handle[e]}
    BY <1>2, <1>6
  <2>2. QED
    BY <1>6, <2>1, FS_Singleton
<1>7. CASE live = {"lbr", "bts"}
  <2>1. open = {handle["lbr"]} \cup {handle["bts"]} /\ live = {"lbr"} \cup {"bts"}
    BY <1>2, <1>7
  <2>2. handle["lbr"] # handle["bts"] /\ "lbr" # "bts"
    BY <1>4, <1>7
  <2>3. ASSUME NEW a, NEW b, a # b  PROVE Cardinality({a} \cup {b}) = 2
    <3>1. IsFiniteSet({a}) /\ Cardinality({a}) = 1 /\ b \notin {a}
      BY <2>3, FS_Singleton
    <3>2. Cardinality({a} \cup {b}) = Cardinality({a}) + 1
      BY <3>1, FS_AddElement, Zenon
    <3>3. QED
      BY <3>1, <3>2
  <2>4. QED
    BY <2>1, <2>2, <2>3
<1>8. live = {} \/ live = {"lbr"} \/ live = {"bts"} \/ live = {"lbr", "bts"}
  BY <1>3
<1>9. QED
  BY <1>2, <1>5, <1>6, <1>7, <1>8

----------------------------------------------------------------------------
(* The theorems.  They hold of both debuggers, and without any hypothesis. *)

\* Requests, flags, handles, buffers, and the rings and areas of the processes
\* that are traced are always what their types say.
THEOREM TypeCorrect == Spec => []TypeOK
<1>1. Inv => TypeOK
  BY DEF Inv
<1>2. QED
  BY SpecInv, <1>1, PTL

\* What the debuggers print are the newest branches of the process of the request,
\* from its last enable to the last dump: by the plugin all that ring and buffer can
\* hold, those of the LBR from the oldest to the newest; by the extension no
\* others.  For rings of any capacity up to MAX_LBR_LIST_LEN and buffers of any
\* size (lbr.c: dump_lbr; bts.c: dump_bts; libiht-gdb.py; kmd-ext.cpp).
THEOREM PrintsTheHistory == Spec => []PrintedIsHistory
BY SpecInv, InvPrints, PTL

\* A debugger that believes to trace nothing has left nothing traced (api.c,
\* kmd.cpp, kmd-ext.cpp).
THEOREM NothingStaysTraced == Spec => []ReleasesItsOwn
BY SpecInv, InvReleases, PTL

\* On Windows the open handles are those of the enabled engines, one each
\* (kmd.cpp: CreateFile, CloseHandle).
THEOREM HandlesStayOwned == Spec => []HandlesOwned
BY SpecInv, InvOwned, PTL
=============================================================================
