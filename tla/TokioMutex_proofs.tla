------------------------- MODULE TokioMutex_proofs --------------------------
(***************************************************************************)
(* What the callers of the mutex rely on: no task is in line twice, nobody *)
(* is in line for a free mutex, and each operation changes for one task    *)
(* only whether it owns the mutex or waits for it, and lets nobody else    *)
(* overtake it.                                                            *)
(***************************************************************************)
EXTENDS TokioMutex, TLAPS

(* Task t owns m or is in line for it.                                     *)
Asks(m, t) == t = m.owner \/ \E i \in DOMAIN m.waiters : m.waiters[i] = t

WellFormed(m, T) ==
  /\ m \in Mutexes(T)
  /\ \A i, j \in DOMAIN m.waiters : m.waiters[i] = m.waiters[j] => i = j
  /\ \A i \in DOMAIN m.waiters : m.waiters[i] # m.owner
  /\ m.owner = Nobody => m.waiters = <<>>

(* Nobody stands in the empty line.                                        *)
LEMMA EmptyLine ==
  ASSUME NEW T
  PROVE  <<>> \in Seq(T) /\ DOMAIN <<>> = {}
OBVIOUS

(* A new mutex is well formed and nobody asks for it.                      *)
LEMMA UnlockedIsWellFormed ==
  ASSUME NEW T
  PROVE  WellFormed(Unlocked, T) /\ \A t \in T \ {Nobody} : ~Asks(Unlocked, t)
BY DEF WellFormed, Unlocked, Mutexes, Asks

(* lock() adds one task to those that ask, and takes the mutex from        *)
(* nobody.                                                                 *)
LEMMA LockAsks ==
  ASSUME NEW T, Nobody \notin T, NEW t \in T, NEW m,
         WellFormed(m, T), ~Asks(m, t)
  PROVE  /\ WellFormed(Lock(m, t), T)
         /\ \A u \in T : Asks(Lock(m, t), u) <=> Asks(m, u) \/ u = t
         /\ \A u \in T : m.owner = u => Lock(m, t).owner = u
<1>1. /\ m.owner \in T \cup {Nobody} /\ m.waiters \in Seq(T)
      /\ m = [owner |-> m.owner, waiters |-> m.waiters]
  BY DEF WellFormed, Mutexes
<1>2. CASE m.owner = Nobody
  <2>1. Lock(m, t) = [owner |-> t, waiters |-> <<>>] /\ m.waiters = <<>>
    BY <1>1, <1>2 DEF Lock, WellFormed
  <2>2. Lock(m, t).owner = t /\ Lock(m, t).waiters = <<>>
    BY <2>1
  <2>3. WellFormed(Lock(m, t), T)
    BY <2>1, <2>2, EmptyLine DEF WellFormed, Mutexes
  <2>4. \A u \in T : Asks(Lock(m, t), u) <=> u = t
    BY <2>2, EmptyLine DEF Asks
  <2>5. \A u \in T : ~Asks(m, u)
    BY <1>2, <2>1, EmptyLine DEF Asks
  <2> QED BY <1>2, <2>3, <2>4, <2>5
<1>3. CASE m.owner # Nobody
  <2>1. Lock(m, t) = [owner |-> m.owner, waiters |-> Append(m.waiters, t)]
    BY <1>1, <1>3 DEF Lock
  <2>2. /\ Append(m.waiters, t) \in Seq(T)
        /\ DOMAIN Append(m.waiters, t) = 1 .. Len(m.waiters) + 1
        /\ \A i \in 1 .. Len(m.waiters) : Append(m.waiters, t)[i] = m.waiters[i]
        /\ Append(m.waiters, t)[Len(m.waiters) + 1] = t
        /\ DOMAIN m.waiters = 1 .. Len(m.waiters) /\ Len(m.waiters) \in Nat
    BY <1>1
  <2> DEFINE line == Append(m.waiters, t)
  <2>5. Lock(m, t).owner = m.owner /\ Lock(m, t).waiters = line
    BY <2>1
  <2>3. WellFormed(Lock(m, t), T)
    <3>1. Lock(m, t) \in Mutexes(T)
      BY <1>1, <2>1, <2>2 DEF Mutexes
    <3>2. t # m.owner /\ \A i \in DOMAIN m.waiters : m.waiters[i] # t
      BY DEF Asks
    <3>3. \A i, j \in DOMAIN line : line[i] = line[j] => i = j
      BY <2>2, <3>2 DEF WellFormed
    <3>4. \A i \in DOMAIN line : line[i] # m.owner
      BY <2>2, <3>2 DEF WellFormed
    <3> QED BY <1>3, <2>5, <3>1, <3>3, <3>4 DEF WellFormed
  <2>4. \A u \in T : Asks(Lock(m, t), u) <=> Asks(m, u) \/ u = t
    BY <2>2, <2>5 DEF Asks
  <2> QED BY <2>3, <2>4, <2>5
<1> QED BY <1>2, <1>3

(* Dropping the guard takes the owner, and only the owner, from those that *)
(* ask.                                                                    *)
LEMMA UnlockAsks ==
  ASSUME NEW T, Nobody \notin T, NEW m, WellFormed(m, T), m.owner \in T
  PROVE  /\ WellFormed(Unlock(m), T)
         /\ \A u \in T : Asks(Unlock(m), u) <=> Asks(m, u) /\ u # m.owner
<1>1. /\ m.waiters \in Seq(T) /\ m = [owner |-> m.owner, waiters |-> m.waiters]
  BY DEF WellFormed, Mutexes
<1>2. CASE m.waiters = <<>>
  <2>1. Unlock(m) = [owner |-> Nobody, waiters |-> <<>>]
    BY <1>1, <1>2 DEF Unlock
  <2>2. Unlock(m).owner = Nobody /\ Unlock(m).waiters = <<>>
    BY <2>1
  <2>3. WellFormed(Unlock(m), T)
    BY <2>1, <2>2, EmptyLine DEF WellFormed, Mutexes
  <2>4. \A u \in T : ~Asks(Unlock(m), u)
    BY <2>2, EmptyLine DEF Asks
  <2>5. \A u \in T : Asks(m, u) => u = m.owner
    BY <1>2, EmptyLine DEF Asks
  <2> QED BY <2>3, <2>4, <2>5
<1>3. CASE m.waiters # <<>>
  <2>1. Unlock(m) = [owner |-> Head(m.waiters), waiters |-> Tail(m.waiters)]
    BY <1>3 DEF Unlock
  <2>2. /\ Len(m.waiters) \in Nat \ {0} /\ DOMAIN m.waiters = 1 .. Len(m.waiters)
        /\ Head(m.waiters) = m.waiters[1] /\ Head(m.waiters) \in T
        /\ Tail(m.waiters) \in Seq(T)
        /\ DOMAIN Tail(m.waiters) = 1 .. Len(m.waiters) - 1
        /\ \A i \in 1 .. Len(m.waiters) - 1 : Tail(m.waiters)[i] = m.waiters[i + 1]
    BY <1>1, <1>3
  <2>5. Unlock(m).owner = Head(m.waiters) /\ Unlock(m).waiters = Tail(m.waiters)
    BY <2>1
  <2>3. WellFormed(Unlock(m), T)
    <3>1. Unlock(m) \in Mutexes(T)
      BY <2>1, <2>2 DEF Mutexes
    <3>2. ASSUME NEW i \in DOMAIN Tail(m.waiters), NEW j \in DOMAIN Tail(m.waiters),
                 Tail(m.waiters)[i] = Tail(m.waiters)[j]
          PROVE  i = j
      <4>1. /\ i + 1 \in DOMAIN m.waiters /\ j + 1 \in DOMAIN m.waiters
            /\ m.waiters[i + 1] = m.waiters[j + 1]
        BY <2>2, <3>2
      <4>2. i + 1 = j + 1
        BY <4>1 DEF WellFormed
      <4> QED BY <2>2, <4>2
    <3>3. ASSUME NEW i \in DOMAIN Tail(m.waiters)
          PROVE  Tail(m.waiters)[i] # Head(m.waiters)
      <4>1. /\ i + 1 \in DOMAIN m.waiters /\ 1 \in DOMAIN m.waiters /\ i + 1 # 1
            /\ Tail(m.waiters)[i] = m.waiters[i + 1]
        BY <2>2
      <4>2. m.waiters[i + 1] # m.waiters[1]
        BY <4>1 DEF WellFormed
      <4> QED BY <2>2, <4>1, <4>2
    <3> QED BY <2>2, <2>5, <3>1, <3>2, <3>3 DEF WellFormed
  <2>4. ASSUME NEW u \in T PROVE Asks(Unlock(m), u) <=> Asks(m, u) /\ u # m.owner
    <3>1. ASSUME Asks(Unlock(m), u) PROVE Asks(m, u) /\ u # m.owner
      <4>1. PICK i \in 1 .. Len(m.waiters) : m.waiters[i] = u
        BY <2>2, <2>5, <3>1 DEF Asks
      <4> QED BY <2>2, <4>1 DEF WellFormed, Asks
    <3>2. ASSUME Asks(m, u), u # m.owner PROVE Asks(Unlock(m), u)
      <4>1. PICK i \in 1 .. Len(m.waiters) : m.waiters[i] = u
        BY <2>2, <3>2 DEF Asks
      <4>2. CASE i = 1
        BY <2>2, <2>5, <4>1, <4>2 DEF Asks
      <4>3. CASE i # 1
        <5>1. i - 1 \in DOMAIN Tail(m.waiters) /\ Tail(m.waiters)[i - 1] = u
          BY <2>2, <4>1, <4>3
        <5> QED BY <2>5, <5>1 DEF Asks
      <4> QED BY <4>2, <4>3
    <3> QED BY <3>1, <3>2
  <2> QED BY <2>3, <2>4
<1> QED BY <1>2, <1>3

(* The elements of a line without its i-th.                                *)
LEMMA WithoutElements ==
  ASSUME NEW T, NEW line \in Seq(T), NEW i \in DOMAIN line
  PROVE  /\ Without(line, i) \in Seq(T)
         /\ DOMAIN Without(line, i) = 1 .. Len(line) - 1
         /\ \A k \in 1 .. Len(line) - 1 :
              Without(line, i)[k] = IF k < i THEN line[k] ELSE line[k + 1]
<1>1. i \in 1 .. Len(line) /\ Len(line) \in Nat
  OBVIOUS
<1> DEFINE before == SubSeq(line, 1, i - 1)
           after  == SubSeq(line, i + 1, Len(line))
<1>2. /\ before \in Seq(T) /\ Len(before) = i - 1
      /\ \A k \in 1 .. i - 1 : before[k] = line[k]
  BY <1>1
<1>3. /\ after \in Seq(T) /\ Len(after) = Len(line) - i
      /\ \A k \in 1 .. Len(line) - i : after[k] = line[i + k]
  BY <1>1
<1>4. Without(line, i) = before \o after
  BY DEF Without
<1> HIDE DEF before, after
<1>5. /\ before \o after \in Seq(T) /\ Len(before \o after) = (i - 1) + (Len(line) - i)
      /\ \A k \in 1 .. (i - 1) + (Len(line) - i) :
           (before \o after)[k] = IF k <= i - 1 THEN before[k] ELSE after[k - (i - 1)]
  BY <1>2, <1>3
<1>6. (i - 1) + (Len(line) - i) = Len(line) - 1
  BY <1>1
<1>7. ASSUME NEW k \in 1 .. Len(line) - 1
      PROVE  (before \o after)[k] = IF k < i THEN line[k] ELSE line[k + 1]
  <2>1. CASE k < i
    <3>1. (before \o after)[k] = before[k]
      BY <1>1, <1>5, <1>6, <2>1
    <3> QED BY <1>1, <1>2, <2>1, <3>1
  <2>2. CASE ~(k < i)
    <3>1. (before \o after)[k] = after[k - (i - 1)]
      BY <1>1, <1>5, <1>6, <2>2
    <3>2. k - (i - 1) \in 1 .. Len(line) - i /\ i + (k - (i - 1)) = k + 1
      BY <1>1, <2>2
    <3>3. after[k - (i - 1)] = line[k + 1]
      BY <1>3, <3>2
    <3> QED BY <2>2, <3>1, <3>3
  <2> QED BY <2>1, <2>2
<1>8. DOMAIN (before \o after) = 1 .. Len(line) - 1
  BY <1>5, <1>6
<1> QED BY <1>4, <1>5, <1>7, <1>8

(* Dropping a lock() future takes that task, and only that task, from      *)
(* those that ask.                                                         *)
LEMMA AbandonAsks ==
  ASSUME NEW T, Nobody \notin T, NEW t \in T, NEW m, WellFormed(m, T), Asks(m, t)
  PROVE  /\ WellFormed(Abandon(m, t), T)
         /\ \A u \in T : Asks(Abandon(m, t), u) <=> Asks(m, u) /\ u # t
         /\ m.owner # t => Abandon(m, t).owner = m.owner
<1>1. CASE m.owner = t
  BY <1>1, UnlockAsks DEF Abandon
<1>2. CASE m.owner # t
  <2> DEFINE i == CHOOSE i \in DOMAIN m.waiters : m.waiters[i] = t
             line == Without(m.waiters, i)
  <2>1. i \in DOMAIN m.waiters /\ m.waiters[i] = t
    BY <1>2 DEF Asks
  <2>2. /\ m.waiters \in Seq(T) /\ DOMAIN m.waiters = 1 .. Len(m.waiters)
        /\ Len(m.waiters) \in Nat /\ m.owner \in T \cup {Nobody}
        /\ m = [owner |-> m.owner, waiters |-> m.waiters]
    BY DEF WellFormed, Mutexes
  <2>3. Abandon(m, t) = [owner |-> m.owner, waiters |-> line]
    BY <1>2, <2>2 DEF Abandon
  <2>4. /\ line \in Seq(T) /\ DOMAIN line = 1 .. Len(m.waiters) - 1
        /\ \A k \in 1 .. Len(m.waiters) - 1 :
             line[k] = IF k < i THEN m.waiters[k] ELSE m.waiters[k + 1]
    BY <2>1, <2>2, WithoutElements
  <2> HIDE DEF line, i
  <2>7. Abandon(m, t).owner = m.owner /\ Abandon(m, t).waiters = line
    BY <2>3
  <2>8. ASSUME NEW k \in DOMAIN line
        PROVE  \E k0 \in DOMAIN m.waiters :
                 k0 = (IF k < i THEN k ELSE k + 1) /\ k0 # i /\ line[k] = m.waiters[k0]
    <3>1. CASE k < i
      BY <2>1, <2>2, <2>4, <3>1
    <3>2. CASE ~(k < i)
      <4>1. k + 1 \in DOMAIN m.waiters /\ k + 1 # i /\ line[k] = m.waiters[k + 1]
        BY <2>1, <2>2, <2>4, <3>2
      <4> QED BY <3>2, <4>1
    <3> QED BY <3>1, <3>2
  <2>5. WellFormed(Abandon(m, t), T)
    <3>1. m.owner # Nobody
      BY <2>1, EmptyLine DEF WellFormed
    <3>2. ASSUME NEW j \in DOMAIN line, NEW k \in DOMAIN line, line[j] = line[k]
          PROVE  j = k
      <4>1. PICK j0 \in DOMAIN m.waiters, k0 \in DOMAIN m.waiters :
              /\ m.waiters[j0] = line[j] /\ m.waiters[k0] = line[k]
              /\ j0 = IF j < i THEN j ELSE j + 1
              /\ k0 = IF k < i THEN k ELSE k + 1
        BY <2>8
      <4>2. j0 = k0
        BY <3>2, <4>1 DEF WellFormed
      <4> QED BY <2>1, <2>2, <2>4, <4>1, <4>2
    <3>3. ASSUME NEW k \in DOMAIN line PROVE line[k] # m.owner
      <4>1. PICK k0 \in DOMAIN m.waiters : m.waiters[k0] = line[k]
        BY <2>8
      <4> QED BY <4>1 DEF WellFormed
    <3> QED BY <2>2, <2>3, <2>4, <2>7, <3>1, <3>2, <3>3 DEF WellFormed, Mutexes
  <2>6. ASSUME NEW u \in T PROVE Asks(Abandon(m, t), u) <=> Asks(m, u) /\ u # t
    <3>1. ASSUME Asks(Abandon(m, t), u) PROVE Asks(m, u) /\ u # t
      <4>1. CASE u = m.owner
        BY <1>2, <4>1 DEF Asks
      <4>2. CASE u # m.owner
        <5>1. PICK k \in DOMAIN line : line[k] = u
          BY <2>7, <3>1, <4>2 DEF Asks
        <5>2. PICK k0 \in DOMAIN m.waiters : m.waiters[k0] = line[k] /\ k0 # i
          BY <2>8
        <5>3. m.waiters[k0] # m.waiters[i]
          BY <2>1, <5>2 DEF WellFormed
        <5> QED BY <2>1, <5>1, <5>2, <5>3 DEF Asks
      <4> QED BY <4>1, <4>2
    <3>2. ASSUME Asks(m, u), u # t PROVE Asks(Abandon(m, t), u)
      <4>1. CASE u = m.owner
        BY <2>7, <4>1 DEF Asks
      <4>2. CASE u # m.owner
        <5>1. PICK k \in DOMAIN m.waiters : m.waiters[k] = u
          BY <3>2, <4>2 DEF Asks
        <5>2. k # i
          BY <2>1, <3>2, <5>1
        <5>3. \E j \in DOMAIN line : line[j] = u
          <6>1. CASE k < i
            BY <2>1, <2>2, <2>4, <5>1, <6>1
          <6>2. CASE k > i
            <7>1. k - 1 \in DOMAIN line /\ line[k - 1] = u
              BY <2>1, <2>2, <2>4, <5>1, <6>2
            <7> QED BY <7>1
          <6> QED BY <2>1, <2>2, <5>1, <5>2, <6>1, <6>2
        <5> QED BY <2>7, <5>3 DEF Asks
      <4> QED BY <4>1, <4>2
    <3> QED BY <3>1, <3>2
  <2> QED BY <2>5, <2>6, <2>7
<1> QED BY <1>1, <1>2

-----------------------------------------------------------------------------
(* The line moves on.                                                      *)

(* A task t that waits in m owns n, or waits in n, no further back, nearer *)
(* to the head if the owner is another, and behind nobody it was not       *)
(* behind already.                                                         *)
Advances(m, n, t) ==
  \A i \in DOMAIN m.waiters : m.waiters[i] = t =>
    \/ n.owner = t
    \/ \E j \in DOMAIN n.waiters :
         /\ n.waiters[j] = t /\ j <= i
         /\ n.owner # m.owner => j < i
         /\ \A k \in 1 .. j - 1 : \E l \in 1 .. i - 1 : n.waiters[k] = m.waiters[l]

(* Who asks goes to the end of the line.                                   *)
LEMMA LockAdvances ==
  ASSUME NEW T, NEW m, WellFormed(m, T), NEW t \in T, NEW u
  PROVE  Advances(m, Lock(m, t), u)
<1>1. m.waiters \in Seq(T) /\ m = [owner |-> m.owner, waiters |-> m.waiters]
  BY DEF WellFormed, Mutexes
<1>2. CASE m.owner = Nobody
  BY <1>2, EmptyLine DEF WellFormed, Advances
<1>3. CASE m.owner # Nobody
  <2>1. Lock(m, t) = [owner |-> m.owner, waiters |-> Append(m.waiters, t)]
    BY <1>1, <1>3 DEF Lock
  <2>2. Lock(m, t).owner = m.owner /\ Lock(m, t).waiters = Append(m.waiters, t)
    BY <2>1
  <2>3. \A i \in DOMAIN m.waiters :
          /\ i \in DOMAIN Append(m.waiters, t) /\ Append(m.waiters, t)[i] = m.waiters[i]
          /\ i \in Nat /\ \A k \in 1 .. i - 1 : k \in DOMAIN m.waiters
    BY <1>1
  <2> QED BY <2>2, <2>3 DEF Advances
<1> QED BY <1>2, <1>3

(* Dropping the guard lets each waiter move up by one.                     *)
LEMMA UnlockAdvances ==
  ASSUME NEW T, NEW m, WellFormed(m, T), NEW u
  PROVE  Advances(m, Unlock(m), u)
<1> SUFFICES ASSUME NEW i \in DOMAIN m.waiters, m.waiters[i] = u, Unlock(m).owner # u
             PROVE  \E j \in DOMAIN Unlock(m).waiters :
                      /\ Unlock(m).waiters[j] = u /\ j <= i
                      /\ Unlock(m).owner # m.owner => j < i
                      /\ \A k \in 1 .. j - 1 : \E l \in 1 .. i - 1 :
                           Unlock(m).waiters[k] = m.waiters[l]
  BY DEF Advances
<1>1. m.waiters \in Seq(T) /\ m.waiters # <<>>
  BY EmptyLine DEF WellFormed, Mutexes
<1>2. Unlock(m).owner = m.waiters[1] /\ Unlock(m).waiters = Tail(m.waiters)
  BY <1>1 DEF Unlock
<1>3. /\ DOMAIN m.waiters = 1 .. Len(m.waiters) /\ Len(m.waiters) \in Nat
      /\ DOMAIN Tail(m.waiters) = 1 .. Len(m.waiters) - 1
      /\ \A k \in 1 .. Len(m.waiters) - 1 : Tail(m.waiters)[k] = m.waiters[k + 1]
  BY <1>1
<1>4. i # 1
  BY <1>2
<1>5. /\ i - 1 \in DOMAIN Tail(m.waiters) /\ Tail(m.waiters)[i - 1] = u
      /\ i - 1 <= i /\ i - 1 < i
  BY <1>3, <1>4
<1>6. \A k \in 1 .. (i - 1) - 1 : k + 1 \in 1 .. i - 1 /\ Tail(m.waiters)[k] = m.waiters[k + 1]
  BY <1>3
<1> QED BY <1>2, <1>5, <1>6

(* A waiter that leaves lets those behind it move up.                      *)
LEMMA AbandonAdvances ==
  ASSUME NEW T, NEW t \in T, NEW m, WellFormed(m, T), Asks(m, t), NEW u, u # t
  PROVE  Advances(m, Abandon(m, t), u)
<1>1. CASE m.owner = t
  BY <1>1, UnlockAdvances DEF Abandon
<1>2. CASE m.owner # t
  <2> DEFINE c == CHOOSE c \in DOMAIN m.waiters : m.waiters[c] = t
             line == Without(m.waiters, c)
  <2>1. c \in DOMAIN m.waiters /\ m.waiters[c] = t
    BY <1>2 DEF Asks
  <2>2. /\ m.waiters \in Seq(T) /\ DOMAIN m.waiters = 1 .. Len(m.waiters)
        /\ Len(m.waiters) \in Nat /\ m = [owner |-> m.owner, waiters |-> m.waiters]
    BY DEF WellFormed, Mutexes
  <2>3. Abandon(m, t) = [owner |-> m.owner, waiters |-> line]
    BY <1>2, <2>2 DEF Abandon
  <2>4. /\ line \in Seq(T) /\ DOMAIN line = 1 .. Len(m.waiters) - 1
        /\ \A k \in 1 .. Len(m.waiters) - 1 :
             line[k] = IF k < c THEN m.waiters[k] ELSE m.waiters[k + 1]
    BY <2>1, <2>2, WithoutElements
  <2> HIDE DEF line, c
  <2>5. Abandon(m, t).owner = m.owner /\ Abandon(m, t).waiters = line
    BY <2>3
  <2> SUFFICES ASSUME NEW i \in DOMAIN m.waiters, m.waiters[i] = u
               PROVE  \E j \in DOMAIN line :
                        /\ line[j] = u /\ j <= i
                        /\ \A k \in 1 .. j - 1 : \E l \in 1 .. i - 1 : line[k] = m.waiters[l]
    BY <2>5 DEF Advances
  <2>6. i # c
    BY <2>1
  <2>7. CASE i < c
    <3>1. i \in DOMAIN line /\ line[i] = u /\ i <= i
      BY <2>1, <2>2, <2>4, <2>7
    <3>2. \A k \in 1 .. i - 1 : line[k] = m.waiters[k]
      BY <2>1, <2>2, <2>4, <2>7
    <3> QED BY <3>1, <3>2
  <2>8. CASE c < i
    <3>1. i - 1 \in DOMAIN line /\ line[i - 1] = u /\ i - 1 <= i
      BY <2>1, <2>2, <2>4, <2>8
    <3>2. ASSUME NEW k \in 1 .. (i - 1) - 1
          PROVE  \E l \in 1 .. i - 1 : line[k] = m.waiters[l]
      <4>1. CASE k < c
        <5>1. k \in 1 .. i - 1 /\ line[k] = m.waiters[k]
          BY <2>1, <2>2, <2>4, <4>1
        <5> QED BY <5>1
      <4>2. CASE ~(k < c)
        <5>1. k + 1 \in 1 .. i - 1 /\ line[k] = m.waiters[k + 1]
          BY <2>1, <2>2, <2>4, <4>2
        <5> QED BY <5>1
      <4> QED BY <4>1, <4>2
    <3> QED BY <3>1, <3>2
  <2> QED BY <2>1, <2>2, <2>6, <2>7, <2>8
<1> QED BY <1>1, <1>2

=============================================================================
