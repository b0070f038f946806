---------------------------- MODULE RWLockProofs ----------------------------
(***************************************************************************)
(* Lock for any number of threads and of locks they ask for.               *)
(*                                                                         *)
(* What a run compares, the word and the guards alive, is not inductive by *)
(* itself: that ReadUnlock finds a reader counted, and that WriteUnlock    *)
(* finds none, needs the order in which a thread's guards end (ReadsLast), *)
(* that a writer is alone (Alone), and what _write_count is between the    *)
(* store of the word and its own update (Owner).  The readers are counted  *)
(* over all threads (Counted).  With these, every step that changes the    *)
(* guards is a step of RecursiveLock.                                      *)
(***************************************************************************)
EXTENDS RWLock, FiniteSetTheorems, SequenceTheorems, TLAPS

Mode == {"r", "w"}

\* A thread that competes for a guard it has asked for.
Competes(t) == pc[t] \in {"casWrite", "loadRead", "casRead"}

\* Above a read guard there are only read guards.
ReadsLast ==
  \A t \in Thread : \A i, j \in DOMAIN held[t] :
    i < j /\ held[t][i] = "r" => held[t][j] = "r"

\* The guards a thread holds or competes for are among those it asked for.
Asked ==
  \A t \in Thread :
    /\ Len(held[t]) <= requests[t]
    /\ Competes(t) => Len(held[t]) + 1 <= requests[t]

\* While the writer half names a thread, no other holds a guard.
Alone ==
  \A t, u \in Thread : flag.writer = t /\ u # t => held[u] = <<>>

\* Who is in the writer half holds a write guard, and its write count lags by
\* one exactly between the word and the count.
Owner ==
  /\ \A t \in Thread :
       /\ flag.writer = t =>
            /\ "w" \in ToSet(held[t])
            /\ ~Competes(t)
            /\ pc[t] = "run" => writeCount = Cardinality(Guards(t, "w"))
            /\ pc[t] \in {"countWrite", "storeEmpty"} => held[t] = <<"w">> /\ writeCount = 0
       /\ flag.writer # t =>
            "w" \notin ToSet(held[t]) /\ pc[t] \notin {"countWrite", "storeEmpty"}
  /\ flag.writer = Nobody => writeCount = 0

\* The reader half counts the read guards of all threads.
Counted == IsFiniteSet(ReadGuards) /\ flag.readers = Cardinality(ReadGuards)

IInv ==
  /\ TypeOK /\ crash # "unlock"
  /\ ReadsLast /\ Asked /\ Alone /\ Owner /\ Counted

-----------------------------------------------------------------------------
(* Sequences of guards                                                     *)

\* The positions of a mode, of which Guards(t, mode) is the one of held[t].
At(s, m) == {i \in DOMAIN s : s[i] = m}

\* A guard that begins comes behind those alive.
LEMMA AppendGuard ==
  ASSUME NEW s \in Seq(Mode), NEW m \in Mode
  PROVE  /\ Append(s, m) \in Seq(Mode)
         /\ Len(s) \in Nat
         /\ Append(s, m) # <<>>
         /\ DOMAIN s = 1 .. Len(s)
         /\ DOMAIN Append(s, m) = 1 .. Len(s) + 1
         /\ Len(Append(s, m)) = Len(s) + 1
         /\ \A i \in 1 .. Len(s) : Append(s, m)[i] = s[i]
         /\ Append(s, m)[Len(s) + 1] = m
  OBVIOUS

\* The guard that ends is the one behind all others.
LEMMA FrontGuard ==
  ASSUME NEW s \in Seq(Mode), s # <<>>
  PROVE  /\ Front(s) \in Seq(Mode)
         /\ Len(s) \in Nat \ {0}
         /\ DOMAIN s = 1 .. Len(s)
         /\ DOMAIN Front(s) = 1 .. Len(s) - 1
         /\ Len(Front(s)) = Len(s) - 1
         /\ \A i \in 1 .. Len(s) - 1 : Front(s)[i] = s[i]
         /\ Last(s) = s[Len(s)]
<1>. DEFINE n == Len(s)
            r == Front(s)
<1>1. n \in Nat \ {0} /\ DOMAIN s = 1 .. n
  OBVIOUS
<1>2. \A i \in 1 .. n - 1 : s[i] \in Mode
  BY <1>1
<1>3. /\ r \in Seq(Mode) /\ Len(r) = IF 1 <= n - 1 THEN (n - 1) - 1 + 1 ELSE 0
      /\ \A i \in 1 .. (n - 1) - 1 + 1 : r[i] = s[1 + i - 1]
  BY <1>1, <1>2, SubSeqProperties DEF Front
<1>4. DOMAIN r = 1 .. Len(r)
  BY <1>3
<1>5. Last(s) = s[n]
  BY DEF Last
<1>. HIDE DEF n, r
<1>6. Len(r) = n - 1 /\ \A i \in 1 .. n - 1 : r[i] = s[i]
  BY <1>1, <1>3
<1>. QED
  BY <1>1, <1>3, <1>4, <1>5, <1>6 DEF n, r

\* What a beginning guard adds to the positions of each mode.
LEMMA AtAppend ==
  ASSUME NEW s \in Seq(Mode), NEW m \in Mode
  PROVE  /\ At(Append(s, m), m) = At(s, m) \cup {Len(s) + 1}
         /\ Len(s) + 1 \notin At(s, m)
         /\ \A k : k # m => At(Append(s, m), k) = At(s, k)
<1>. DEFINE r == Append(s, m)
<1>2. /\ Len(s) \in Nat /\ DOMAIN s = 1 .. Len(s) /\ DOMAIN r = 1 .. Len(s) + 1
      /\ \A i \in 1 .. Len(s) : r[i] = s[i]
      /\ r[Len(s) + 1] = m
  BY AppendGuard
<1>. HIDE DEF r
<1>3. \A i : i \in 1 .. Len(s) + 1 <=> i \in 1 .. Len(s) \/ i = Len(s) + 1
  BY <1>2
<1>4. Len(s) + 1 \notin DOMAIN s
  BY <1>2
<1>5. \A k, i : i \in At(r, k) <=> i \in At(s, k) \/ (i = Len(s) + 1 /\ m = k)
  BY <1>2, <1>3, <1>4 DEF At
<1>6. Len(s) + 1 \notin At(s, m)
  BY <1>4 DEF At
<1>7. At(r, m) = At(s, m) \cup {Len(s) + 1}
  BY <1>5
<1>8. ASSUME NEW k, k # m
      PROVE  At(r, k) = At(s, k)
  <2>1. \A i : i \in At(r, k) <=> i \in At(s, k)
    BY <1>5, <1>8
  <2>. QED
    BY <2>1
<1>9. \A k : k # m => At(r, k) = At(s, k)
  BY <1>8
<1>10. /\ At(Append(s, m), m) = At(s, m) \cup {Len(s) + 1}
       /\ Len(s) + 1 \notin At(s, m)
  BY <1>6, <1>7 DEF r
<1>11. \A k : k # m => At(Append(s, m), k) = At(s, k)
  BY <1>9 DEF r
<1>. QED
  BY <1>10, <1>11

\* What an ending guard takes from the positions of each mode.
LEMMA AtFront ==
  ASSUME NEW s \in Seq(Mode), s # <<>>
  PROVE  /\ At(Front(s), Last(s)) = At(s, Last(s)) \ {Len(s)}
         /\ Len(s) \in At(s, Last(s))
         /\ \A k : k # Last(s) => At(Front(s), k) = At(s, k)
<1>1. PICK r : r = Front(s)
  OBVIOUS
<1>2. /\ Len(s) \in Nat \ {0} /\ DOMAIN s = 1 .. Len(s) /\ DOMAIN r = 1 .. Len(s) - 1
      /\ \A i \in 1 .. Len(s) - 1 : r[i] = s[i]
      /\ Last(s) = s[Len(s)]
  BY <1>1, FrontGuard
<1>3. \A i : i \in 1 .. Len(s) - 1 <=> i \in 1 .. Len(s) /\ i # Len(s)
  BY <1>2
<1>4. \A k, i : i \in At(r, k) <=> i \in At(s, k) /\ i # Len(s)
  BY <1>2, <1>3 DEF At
<1>5. Len(s) \in At(s, Last(s))
  BY <1>2 DEF At
<1>6. \A k : k # Last(s) => Len(s) \notin At(s, k)
  BY <1>2 DEF At
<1>7. At(r, Last(s)) = At(s, Last(s)) \ {Len(s)}
  BY <1>4
<1>8. ASSUME NEW k, k # Last(s)
      PROVE  At(r, k) = At(s, k)
  BY <1>4, <1>6, <1>8
<1>. QED
  BY <1>1, <1>5, <1>7, <1>8

\* A mode is among the guards just when it has a position.
LEMMA ToSetAt ==
  ASSUME NEW s, NEW m
  PROVE  m \in ToSet(s) <=> At(s, m) # {}
  BY DEF ToSet, At

\* The positions of a mode can be counted.
LEMMA AtFinite ==
  ASSUME NEW s \in Seq(Mode), NEW m
  PROVE  IsFiniteSet(At(s, m)) /\ Cardinality(At(s, m)) \in Nat
<1>1. Len(s) \in Nat /\ DOMAIN s = 1 .. Len(s)
  OBVIOUS
<1>2. At(s, m) \subseteq 1 .. Len(s)
  BY <1>1 DEF At
<1>3. IsFiniteSet(1 .. Len(s))
  BY <1>1, FS_Interval
<1>4. IsFiniteSet(At(s, m))
  BY <1>2, <1>3, FS_Subset
<1>. QED
  BY <1>4, FS_CardinalityType

LEMMA GuardsAt ==
  ASSUME NEW t
  PROVE  \A m : Guards(t, m) = At(held[t], m)
  BY DEF Guards, At

-----------------------------------------------------------------------------
(* Guards that begin and end                                               *)

\* Take changes the guards of one thread, and the read guards of all by the
\* one it takes.
LEMMA TakeGuard ==
  ASSUME TypeOK, NEW t \in Thread, NEW m \in Mode, Take(t, m),
         Len(held[t]) + 1 <= MaxRequest
  PROVE  /\ held' \in [Thread -> Seq(Mode)]
         /\ held'[t] = Append(held[t], m)
         /\ \A u \in Thread : u # t => held'[u] = held[u]
         /\ m = "w" => ReadGuards' = ReadGuards
         /\ m = "r" => LET g == <<t, Len(held[t]) + 1>>
                       IN ReadGuards' = ReadGuards \cup {g} /\ g \notin ReadGuards
<1>1. held \in [Thread -> Seq(Mode)] /\ held[t] \in Seq(Mode) /\ MaxRequest \in Nat
  BY MaxRequestAssumption DEF TypeOK, Mode
<1>2. Append(held[t], m) \in Seq(Mode) /\ Len(held[t]) \in Nat
  BY <1>1, AppendGuard
<1>3. /\ held' \in [Thread -> Seq(Mode)]
      /\ held'[t] = Append(held[t], m)
      /\ \A u \in Thread : u # t => held'[u] = held[u]
  BY <1>1, <1>2 DEF Take
<1>4. \A u \in Thread : u # t => At(held'[u], "r") = At(held[u], "r")
  BY <1>3
<1>5. \A u, i : <<u, i>> \in ReadGuards <=>
               u \in Thread /\ i \in 1 .. MaxRequest /\ i \in At(held[u], "r")
  BY GuardsAt DEF ReadGuards
<1>6. \A u, i : <<u, i>> \in ReadGuards' <=>
               u \in Thread /\ i \in 1 .. MaxRequest /\ i \in At(held'[u], "r")
  BY DEF ReadGuards, Guards, At
<1>7. \A g : g \in ReadGuards \/ g \in ReadGuards' => g = <<g[1], g[2]>>
  BY DEF ReadGuards
<1>8. CASE m = "w"
  <2>1. At(held'[t], "r") = At(held[t], "r")
    BY <1>1, <1>3, <1>8, AtAppend
  <2>2. \A u, i : <<u, i>> \in ReadGuards' <=> <<u, i>> \in ReadGuards
    BY <1>4, <1>5, <1>6, <2>1
  <2>3. ReadGuards' = ReadGuards
    <3>1. \A g : g \in ReadGuards' <=> g \in ReadGuards
      BY <1>7, <2>2
    <3>. QED
      BY <3>1
  <2>. QED
    BY <1>3, <1>8, <2>3
<1>9. CASE m = "r"
  <2>. DEFINE n == Len(held[t]) + 1
  <2>1. At(held'[t], "r") = At(held[t], "r") \cup {n} /\ n \notin At(held[t], "r")
    BY <1>1, <1>3, <1>9, AtAppend
  <2>2. n \in 1 .. MaxRequest
    BY <1>1, <1>2
  <2>. HIDE DEF n
  <2>3. \A u, i : <<u, i>> \in ReadGuards' <=>
                 <<u, i>> \in ReadGuards \/ (u = t /\ i = n)
    BY <1>4, <1>5, <1>6, <2>1, <2>2
  <2>4. ReadGuards' = ReadGuards \cup {<<t, n>>}
    BY <1>7, <2>3
  <2>5. <<t, n>> \notin ReadGuards
    BY <1>5, <2>1
  <2>. QED
    BY <1>3, <1>9, <2>4, <2>5 DEF n
<1>. QED
  BY <1>8, <1>9 DEF Mode

\* Drop takes the last guard of one thread.
LEMMA DropGuard ==
  ASSUME TypeOK, NEW t \in Thread, Drop(t), held[t] # <<>>,
         Len(held[t]) <= MaxRequest
  PROVE  /\ held' \in [Thread -> Seq(Mode)]
         /\ held'[t] = Front(held[t])
         /\ \A u \in Thread : u # t => held'[u] = held[u]
         /\ Last(held[t]) \in Mode
         /\ Last(held[t]) = "w" => ReadGuards' = ReadGuards
         /\ Last(held[t]) = "r" => LET g == <<t, Len(held[t])>>
                                   IN ReadGuards' = ReadGuards \ {g} /\ g \in ReadGuards
<1>1. held \in [Thread -> Seq(Mode)] /\ held[t] \in Seq(Mode) /\ MaxRequest \in Nat
  BY MaxRequestAssumption DEF TypeOK, Mode
<1>2. /\ Front(held[t]) \in Seq(Mode) /\ Len(held[t]) \in Nat \ {0}
      /\ Last(held[t]) \in Mode
  BY <1>1, FrontGuard
<1>3. /\ held' \in [Thread -> Seq(Mode)]
      /\ held'[t] = Front(held[t])
      /\ \A u \in Thread : u # t => held'[u] = held[u]
  BY <1>1, <1>2 DEF Drop
<1>4. \A u \in Thread : u # t => At(held'[u], "r") = At(held[u], "r")
  BY <1>3
<1>5. \A u, i : <<u, i>> \in ReadGuards <=>
               u \in Thread /\ i \in 1 .. MaxRequest /\ i \in At(held[u], "r")
  BY GuardsAt DEF ReadGuards
<1>6. \A u, i : <<u, i>> \in ReadGuards' <=>
               u \in Thread /\ i \in 1 .. MaxRequest /\ i \in At(held'[u], "r")
  BY DEF ReadGuards, Guards, At
<1>7. \A g : g \in ReadGuards \/ g \in ReadGuards' => g = <<g[1], g[2]>>
  BY DEF ReadGuards
<1>8. CASE Last(held[t]) = "w"
  <2>1. At(held'[t], "r") = At(held[t], "r")
    BY <1>1, <1>3, <1>8, AtFront
  <2>2. \A u, i : <<u, i>> \in ReadGuards' <=> <<u, i>> \in ReadGuards
    BY <1>4, <1>5, <1>6, <2>1
  <2>3. ReadGuards' = ReadGuards
    <3>1. \A g : g \in ReadGuards' <=> g \in ReadGuards
      BY <1>7, <2>2
    <3>. QED
      BY <3>1
  <2>. QED
    <3>1. Last(held[t]) # "r"
      BY <1>8
    <3>. QED
      BY <1>2, <1>3, <3>1, <2>3
<1>9. CASE Last(held[t]) = "r"
  <2>. DEFINE n == Len(held[t])
  <2>1. At(held'[t], "r") = At(held[t], "r") \ {n} /\ n \in At(held[t], "r")
    BY <1>1, <1>3, <1>9, AtFront
  <2>2. n \in 1 .. MaxRequest
    BY <1>1, <1>2
  <2>. HIDE DEF n
  <2>3. \A u, i : <<u, i>> \in ReadGuards' <=>
                 <<u, i>> \in ReadGuards /\ ~(u = t /\ i = n)
    BY <1>4, <1>5, <1>6, <2>1, <2>2
  <2>4. ReadGuards' = ReadGuards \ {<<t, n>>}
    BY <1>7, <2>3
  <2>5. <<t, n>> \in ReadGuards
    BY <1>5, <2>1, <2>2
  <2>. QED
    BY <1>2, <1>3, <1>9, <2>4, <2>5 DEF n
<1>. QED
  BY <1>2, <1>8, <1>9 DEF Mode

-----------------------------------------------------------------------------
(* The invariant                                                           *)

\* The invariant holds of an unlocked Lock that nobody asked for (Lock.h:33-37).
THEOREM InitInv == Init => IInv
<1>. SUFFICES ASSUME Init PROVE IInv
  OBVIOUS
<1>1. TypeOK
  BY MaxRequestAssumption DEF Init, TypeOK, Pc, Empty
<1>2. \A t \in Thread : held[t] = <<>>
  BY DEF Init
<1>3. ReadGuards = {}
  BY <1>2 DEF ReadGuards, Guards
<1>4. Counted
  BY <1>3, FS_EmptySet DEF Counted, Init, Empty
<1>5. ReadsLast /\ Asked /\ Alone
  BY <1>1, <1>2 DEF ReadsLast, Asked, Alone, Competes, Init, TypeOK
<1>6. Owner
  BY <1>2, NobodyAssumption DEF Owner, Init, Empty, ToSet
<1>. QED
  BY <1>1, <1>4, <1>5, <1>6 DEF IInv, Init

\* A guard that begins keeps the order of the thread's guards, unless it is a
\* write guard over a read guard.
LEMMA TakeKeepsReadsLast ==
  ASSUME TypeOK, ReadsLast, NEW t \in Thread, NEW m \in Mode,
         m = "w" => "r" \notin ToSet(held[t]),
         held'[t] = Append(held[t], m),
         \A u \in Thread : u # t => held'[u] = held[u]
  PROVE  ReadsLast'
<1>1. held[t] \in Seq(Mode)
  BY DEF TypeOK, Mode
<1>2. ASSUME NEW i \in DOMAIN held'[t], NEW j \in DOMAIN held'[t],
             i < j, held'[t][i] = "r"
      PROVE  held'[t][j] = "r"
  <2>1. PICK n \in Nat : n = Len(held[t]) /\ DOMAIN held[t] = 1 .. n
    BY <1>1
  <2>2. /\ DOMAIN held'[t] = 1 .. n + 1
        /\ \A k \in 1 .. n : held'[t][k] = held[t][k]
        /\ held'[t][n + 1] = m
    BY <1>1, <2>1, AppendGuard
  <2>3. i \in 1 .. n /\ held[t][i] = "r"
    BY <1>2, <2>1, <2>2
  <2>4. CASE j \in 1 .. n
    BY <1>2, <2>1, <2>2, <2>3, <2>4 DEF ReadsLast
  <2>5. CASE j = n + 1
    <3>1. "r" \in ToSet(held[t])
      BY <2>1, <2>3 DEF ToSet
    <3>. QED
      BY <2>2, <2>5, <3>1 DEF Mode
  <2>. QED
    BY <2>1, <2>2, <2>4, <2>5
<1>. QED
  BY <1>2, SMTT(30) DEF ReadsLast

\* A guard that ends keeps the order too.
LEMMA DropKeepsReadsLast ==
  ASSUME TypeOK, ReadsLast, NEW t \in Thread, held[t] # <<>>,
         held'[t] = Front(held[t]),
         \A u \in Thread : u # t => held'[u] = held[u]
  PROVE  ReadsLast'
<1>1. held[t] \in Seq(Mode)
  BY DEF TypeOK, Mode
<1>2. ASSUME NEW i \in DOMAIN held'[t], NEW j \in DOMAIN held'[t],
             i < j, held'[t][i] = "r"
      PROVE  held'[t][j] = "r"
  <2>1. PICK n \in Nat \ {0} : n = Len(held[t]) /\ DOMAIN held[t] = 1 .. n
    BY <1>1
  <2>2. /\ DOMAIN held'[t] = 1 .. n - 1
        /\ \A k \in 1 .. n - 1 : held'[t][k] = held[t][k]
    BY <1>1, <2>1, FrontGuard
  <2>. QED
    BY <1>2, <2>1, <2>2 DEF ReadsLast
<1>. QED
  BY <1>2 DEF ReadsLast

\* When the last of a thread's guards is a write guard, all of them are.
LEMMA LastWrite ==
  ASSUME TypeOK, ReadsLast, NEW t \in Thread, held[t] # <<>>, Last(held[t]) = "w"
  PROVE  At(held[t], "w") = 1 .. Len(held[t]) /\ At(held[t], "r") = {}
<1>1. held[t] \in Seq(Mode)
  BY DEF TypeOK, Mode
<1>2. PICK n \in Nat \ {0} :
        n = Len(held[t]) /\ DOMAIN held[t] = 1 .. n /\ held[t][n] = "w"
  BY <1>1, FrontGuard
<1>3. ASSUME NEW i \in 1 .. n
      PROVE  held[t][i] = "w"
  <2>1. held[t][i] \in Mode
    BY <1>1, <1>2
  <2>2. i < n => held[t][i] # "r"
    BY <1>2 DEF ReadsLast
  <2>. QED
    BY <1>2, <2>1, <2>2 DEF Mode
<1>. QED
  BY <1>2, <1>3 DEF At

\* Without a reader counted there is no read guard.
LEMMA NoReaders ==
  ASSUME TypeOK, Counted, Asked, flag.readers = 0, NEW t \in Thread
  PROVE  "r" \notin ToSet(held[t])
<1>1. ReadGuards = {}
  BY FS_EmptySet DEF Counted
<1>2. ASSUME "r" \in ToSet(held[t])
      PROVE  FALSE
  <2>1. PICK i \in DOMAIN held[t] : held[t][i] = "r"
    BY <1>2 DEF ToSet
  <2>2. i \in 1 .. Len(held[t]) /\ Len(held[t]) \in Nat /\ Len(held[t]) <= MaxRequest
    BY MaxRequestAssumption DEF TypeOK, Asked
  <2>3. <<t, i>> \in ReadGuards
    BY <2>1, <2>2, MaxRequestAssumption DEF ReadGuards, Guards
  <2>. QED
    BY <1>1, <2>3
<1>. QED
  BY <1>2

\* A thread without a guard of either mode has none.
LEMMA NoGuard ==
  ASSUME TypeOK, NEW t \in Thread, "w" \notin ToSet(held[t]), "r" \notin ToSet(held[t])
  PROVE  held[t] = <<>>
  BY DEF TypeOK, ToSet

\* WriteLock of a thread that is in the writer half, or that goes on to compete.
LEMMA BeginWriteInv ==
  ASSUME IInv, NEW t \in Thread, BeginWrite(t)
  PROVE  IInv'
<1>. USE DEF IInv
<1>1. /\ pc[t] = "run" /\ requests[t] < MaxRequest /\ "r" \notin ToSet(held[t])
      /\ requests' = [requests EXCEPT ![t] = @ + 1]
      /\ UNCHANGED <<flag, seen, crash>>
  BY DEF BeginWrite, Request
<1>2. /\ Len(held[t]) \in Nat /\ requests[t] \in Nat /\ requests'[t] = requests[t] + 1
      /\ requests' \in [Thread -> 0 .. MaxRequest]
      /\ \A u \in Thread : u # t => requests'[u] = requests[u]
      /\ Len(held[t]) <= requests[t]
  BY <1>1, MaxRequestAssumption DEF TypeOK, Asked
<1>3. CASE flag.writer = t
  <2>1. Take(t, "w") /\ writeCount' = writeCount + 1 /\ pc' = pc
    BY <1>3 DEF BeginWrite
  <2>2. Len(held[t]) + 1 <= MaxRequest
    BY <1>1, <1>2, MaxRequestAssumption
  <2>3. /\ held' \in [Thread -> Seq(Mode)]
        /\ held'[t] = Append(held[t], "w")
        /\ \A u \in Thread : u # t => held'[u] = held[u]
        /\ ReadGuards' = ReadGuards
    BY <2>1, <2>2, TakeGuard DEF Mode
  <2>4. TypeOK'
    BY <1>1, <1>2, <2>1, <2>3 DEF TypeOK, Mode
  <2>5. ReadsLast'
    BY <1>1, <2>3, TakeKeepsReadsLast DEF Mode
  <2>6. held[t] \in Seq(Mode)
    BY DEF TypeOK, Mode
  <2>7. Len(held'[t]) = Len(held[t]) + 1
    BY <2>3, <2>6, AppendGuard DEF Mode
  <2>8. Asked'
    BY <1>1, <1>2, <2>1, <2>3, <2>7 DEF Asked, Competes
  <2>9. Alone'
    BY <1>1, <1>3, <2>3 DEF Alone
  <2>10. At(held'[t], "w") = At(held[t], "w") \cup {Len(held[t]) + 1}
         /\ Len(held[t]) + 1 \notin At(held[t], "w")
    BY <2>3, <2>6, AtAppend DEF Mode
  <2>11. Cardinality(At(held'[t], "w")) = Cardinality(At(held[t], "w")) + 1
    BY <2>6, <2>10, AtFinite, FS_AddElement
  <2>12. "w" \in ToSet(held'[t])
    BY <2>10, ToSetAt
  <2>13. writeCount' = Cardinality(Guards(t, "w")')
    BY <1>1, <1>3, <2>1, <2>11, GuardsAt DEF Owner, Guards, At
  <2>14. t # Nobody
    BY NobodyAssumption
  <2>15. Owner'
    BY <1>1, <1>3, <2>1, <2>3, <2>12, <2>13, <2>14 DEF Owner, Competes
  <2>16. Counted'
    BY <1>1, <2>3 DEF Counted
  <2>. QED
    BY <1>1, <2>4, <2>5, <2>8, <2>9, <2>15, <2>16
<1>4. CASE flag.writer # t
  <2>1. pc' = [pc EXCEPT ![t] = "casWrite"] /\ UNCHANGED <<writeCount, held>>
    BY <1>4 DEF BeginWrite, Goto
  <2>2. /\ pc'[t] = "casWrite" /\ pc' \in [Thread -> Pc]
        /\ \A u \in Thread : u # t => pc'[u] = pc[u]
    BY <2>1 DEF TypeOK, Pc
  <2>3. TypeOK'
    BY <1>1, <1>2, <2>1, <2>2 DEF TypeOK
  <2>4. ReadsLast' /\ Alone' /\ Counted'
    BY <1>1, <2>1 DEF ReadsLast, Alone, Counted, ReadGuards, Guards
  <2>5. Asked'
    BY <1>2, <2>1, <2>2 DEF Asked, Competes
  <2>6. \A u : Guards(u, "w")' = Guards(u, "w")
    BY <2>1 DEF Guards
  <2>7. Owner'
    BY <1>1, <1>4, <2>1, <2>2, <2>6 DEF Owner, Competes
  <2>. QED
    BY <1>1, <2>3, <2>4, <2>5, <2>7
<1>. QED
  BY <1>3, <1>4

\* The word was empty, so that nobody holds a guard.
LEMMA EmptyWord ==
  ASSUME IInv, flag = Empty, NEW u \in Thread
  PROVE  held[u] = <<>>
<1>1. flag.writer # u /\ flag.readers = 0
  BY NobodyAssumption DEF Empty
<1>2. "w" \notin ToSet(held[u])
  BY <1>1 DEF IInv, Owner
<1>3. "r" \notin ToSet(held[u])
  BY <1>1, NoReaders DEF IInv
<1>. QED
  BY <1>2, <1>3, NoGuard DEF IInv

LEMMA CasWriteInv ==
  ASSUME IInv, NEW t \in Thread, CasWrite(t)
  PROVE  IInv'
<1>. USE DEF IInv
<1>1. /\ pc[t] = "casWrite" /\ flag = Empty /\ Take(t, "w")
      /\ flag' = [flag EXCEPT !.writer = t]
      /\ pc' = [pc EXCEPT ![t] = "countWrite"]
      /\ UNCHANGED <<writeCount, seen, requests, crash>>
  BY DEF CasWrite, Goto
<1>2. \A u \in Thread : held[u] = <<>>
  BY <1>1, EmptyWord
<1>3. flag' = [writer |-> t, readers |-> 0]
  BY <1>1 DEF Empty
<1>4. /\ pc'[t] = "countWrite" /\ pc' \in [Thread -> Pc]
      /\ \A u \in Thread : u # t => pc'[u] = pc[u]
  BY <1>1 DEF TypeOK, Pc
<1>5. Len(held[t]) + 1 <= MaxRequest /\ requests[t] \in 1 .. MaxRequest
  BY <1>1, <1>2, MaxRequestAssumption DEF Asked, Competes, TypeOK
<1>6. /\ held' \in [Thread -> Seq(Mode)]
      /\ held'[t] = Append(held[t], "w")
      /\ \A u \in Thread : u # t => held'[u] = held[u]
      /\ ReadGuards' = ReadGuards
  BY <1>1, <1>5, TakeGuard DEF Mode
<1>7. held'[t] = <<"w">>
  <2>1. held'[t] = Append(<<>>, "w")
    BY <1>2, <1>6
  <2>. QED
    BY <2>1
<1>8. TypeOK'
  BY <1>1, <1>3, <1>4, <1>6 DEF TypeOK, Mode
<1>9. ReadsLast'
  BY <1>2, <1>6, TakeKeepsReadsLast DEF Mode, ToSet
<1>10. Asked'
  BY <1>1, <1>4, <1>5, <1>6, <1>7, SMTT(30) DEF Asked, Competes
<1>11. Alone'
  BY <1>2, <1>3, <1>6 DEF Alone
<1>12. writeCount = 0
  BY <1>1 DEF Owner, Empty
<1>13. "w" \in ToSet(held'[t])
  BY <1>7 DEF ToSet
<1>14. ASSUME NEW u \in Thread, u # t
       PROVE  "w" \notin ToSet(held'[u]) /\ pc'[u] \notin {"countWrite", "storeEmpty"}
  <2>1. flag.writer # u
    BY <1>1, NobodyAssumption DEF Empty
  <2>. QED
    BY <1>4, <1>6, <1>14, <2>1 DEF Owner
<1>15. Owner'
  BY <1>1, <1>3, <1>4, <1>7, <1>12, <1>13, <1>14, NobodyAssumption DEF Owner, Competes
<1>16. Counted'
  BY <1>1, <1>3, <1>6 DEF Counted, Empty
<1>. QED
  BY <1>1, <1>8, <1>9, <1>10, <1>11, <1>15, <1>16

LEMMA CountWriteInv ==
  ASSUME IInv, NEW t \in Thread, CountWrite(t)
  PROVE  IInv'
<1>. USE DEF IInv
<1>1. /\ pc[t] = "countWrite" /\ writeCount' = writeCount + 1
      /\ pc' = [pc EXCEPT ![t] = "run"]
      /\ UNCHANGED <<flag, seen, held, requests, crash>>
  BY DEF CountWrite, Goto
<1>2. /\ pc'[t] = "run" /\ pc' \in [Thread -> Pc]
      /\ \A u \in Thread : u # t => pc'[u] = pc[u]
  BY <1>1 DEF TypeOK, Pc
<1>3. flag.writer = t /\ held[t] = <<"w">> /\ writeCount = 0
  BY <1>1 DEF Owner
<1>4. Guards(t, "w")' = {1}
  BY <1>1, <1>3 DEF Guards
<1>5. Cardinality(Guards(t, "w")') = 1
  BY <1>4, FS_Singleton
<1>6. TypeOK'
  BY <1>1, <1>2 DEF TypeOK
<1>7. ReadsLast' /\ Alone' /\ Counted'
  BY <1>1 DEF ReadsLast, Alone, Counted, ReadGuards, Guards
<1>8. Asked'
  BY <1>1, <1>2 DEF Asked, Competes
<1>9. Owner'
  BY <1>1, <1>2, <1>3, <1>5, NobodyAssumption DEF Owner, Competes
<1>. QED
  BY <1>1, <1>6, <1>7, <1>8, <1>9

\* WriteUnlock finds no reader: no CRASH.
LEMMA UnlockFindsNoReader ==
  ASSUME IInv, NEW t \in Thread, EndsWrite(t)
  PROVE  /\ flag.writer = t /\ flag.readers = 0
         /\ \A u \in Thread : u # t => held[u] = <<>>
<1>. USE DEF IInv
<1>1. held[t] # <<>> /\ Last(held[t]) = "w"
  BY DEF EndsWrite
<1>2. At(held[t], "r") = {} /\ Len(held[t]) \in At(held[t], "w")
  BY <1>1, LastWrite, AtFront DEF TypeOK, Mode
<1>3. flag.writer = t
  BY <1>2, ToSetAt DEF Owner
<1>4. \A u \in Thread : u # t => held[u] = <<>>
  BY <1>3 DEF Alone
<1>5. \A u \in Thread : Guards(u, "r") = {}
  <2>1. ASSUME NEW u \in Thread, u # t
        PROVE  Guards(u, "r") = {}
    <3>1. held[u] = <<>>
      BY <1>4, <2>1
    <3>. QED
      BY <3>1 DEF Guards
  <2>2. Guards(t, "r") = {}
    BY <1>2, GuardsAt
  <2>. QED
    BY <2>1, <2>2
<1>6. ReadGuards = {}
  BY <1>5 DEF ReadGuards
<1>7. flag.readers = 0
  BY <1>6, FS_EmptySet DEF Counted
<1>. QED
  BY <1>3, <1>4, <1>7

LEMMA CountUnlockInv ==
  ASSUME IInv, NEW t \in Thread, CountUnlock(t)
  PROVE  IInv'
<1>. USE DEF IInv
<1>1. /\ pc[t] = "run" /\ held[t] # <<>> /\ Last(held[t]) = "w"
      /\ flag.writer = t /\ flag.readers = 0
      /\ \A u \in Thread : u # t => held[u] = <<>>
  BY UnlockFindsNoReader DEF CountUnlock, EndsWrite
<1>2. /\ writeCount' = writeCount - 1 /\ UNCHANGED <<flag, seen, requests, crash>>
      /\ IF writeCount = 1 THEN Goto(t, "storeEmpty") /\ UNCHANGED held
                           ELSE Drop(t) /\ UNCHANGED pc
  BY <1>1 DEF CountUnlock
<1>3. held[t] \in Seq(Mode) /\ writeCount \in Nat /\ t # Nobody
  BY NobodyAssumption DEF TypeOK, Mode
<1>4. PICK n \in Nat \ {0} :
        n = Len(held[t]) /\ DOMAIN held[t] = 1 .. n /\ held[t][n] = "w"
  <2>1. Len(held[t]) \in Nat \ {0} /\ DOMAIN held[t] = 1 .. Len(held[t])
    BY <1>1, <1>3, FrontGuard
  <2>2. held[t][Len(held[t])] = "w"
    BY <1>1, <1>3, FrontGuard
  <2>. QED
    BY <2>1, <2>2
<1>5. At(held[t], "w") = 1 .. n
  BY <1>1, <1>4, LastWrite
<1>6. writeCount = n
  <2>1. Cardinality(1 .. n) = n
    BY FS_Interval
  <2>2. Guards(t, "w") = 1 .. n
    BY <1>5, GuardsAt
  <2>. QED
    BY <1>1, <2>1, <2>2 DEF Owner
<1>7. CASE writeCount = 1
  <2>1. pc' = [pc EXCEPT ![t] = "storeEmpty"] /\ held' = held /\ writeCount' = 0
    BY <1>2, <1>7 DEF Goto
  <2>2. /\ pc'[t] = "storeEmpty" /\ pc' \in [Thread -> Pc]
        /\ \A u \in Thread : u # t => pc'[u] = pc[u]
    BY <2>1 DEF TypeOK, Pc
  <2>3. held[t] = <<"w">>
    BY <1>3, <1>4, <1>6, <1>7
  <2>4. TypeOK'
    BY <1>2, <2>1, <2>2 DEF TypeOK
  <2>5. ReadsLast' /\ Alone' /\ Counted'
    BY <1>2, <2>1 DEF ReadsLast, Alone, Counted, ReadGuards, Guards
  <2>6. Asked'
    BY <1>2, <2>1, <2>2 DEF Asked, Competes
  <2>7. Owner'
    BY <1>1, <1>2, <1>3, <2>1, <2>2, <2>3 DEF Owner, Competes
  <2>. QED
    BY <1>2, <2>4, <2>5, <2>6, <2>7
<1>8. CASE writeCount # 1
  <2>1. Drop(t) /\ pc' = pc
    BY <1>2, <1>8
  <2>2. Len(held[t]) <= MaxRequest /\ Len(held[t]) <= requests[t]
    BY <1>4, MaxRequestAssumption DEF Asked, TypeOK
  <2>3. /\ held' \in [Thread -> Seq(Mode)]
        /\ held'[t] = Front(held[t])
        /\ \A u \in Thread : u # t => held'[u] = held[u]
        /\ ReadGuards' = ReadGuards
    BY <1>1, <2>1, <2>2, DropGuard
  <2>4. TypeOK'
    BY <1>2, <1>3, <1>4, <1>6, <2>1, <2>3 DEF TypeOK, Mode
  <2>5. ReadsLast'
    BY <1>1, <2>3, DropKeepsReadsLast
  <2>6. Len(held'[t]) = n - 1
    BY <1>1, <1>3, <1>4, <2>3, FrontGuard
  <2>7. Asked'
    BY <1>1, <1>2, <1>4, <2>1, <2>2, <2>3, <2>6 DEF Asked, Competes, TypeOK
  <2>8. Alone'
    BY <1>1, <1>2, <2>3 DEF Alone
  <2>9. At(held'[t], "w") = (1 .. n) \ {n}
    BY <1>1, <1>3, <1>4, <1>5, <2>3, AtFront
  <2>10. At(held'[t], "w") = 1 .. n - 1
    <3>1. (1 .. n) \ {n} = 1 .. n - 1
      OBVIOUS
    <3>. QED
      BY <2>9, <3>1
  <2>11. writeCount' = Cardinality(Guards(t, "w")')
    <3>1. Cardinality(1 .. n - 1) = n - 1
      BY FS_Interval
    <3>. QED
      BY <1>2, <1>6, <2>10, <3>1 DEF Guards, At
  <2>12. "w" \in ToSet(held'[t])
    <3>1. 1 \in At(held'[t], "w")
      BY <1>6, <1>8, <2>10
    <3>. QED
      BY <3>1, ToSetAt
  <2>13. Owner'
    BY <1>1, <1>2, <1>3, <2>1, <2>3, <2>11, <2>12 DEF Owner, Competes
  <2>14. Counted'
    BY <1>2, <2>3 DEF Counted
  <2>. QED
    BY <1>2, <2>4, <2>5, <2>7, <2>8, <2>13, <2>14
<1>. QED
  BY <1>7, <1>8

LEMMA StoreEmptyInv ==
  ASSUME IInv, NEW t \in Thread, StoreEmpty(t)
  PROVE  IInv'
<1>. USE DEF IInv
<1>1. /\ pc[t] = "storeEmpty" /\ flag' = Empty /\ Drop(t)
      /\ pc' = [pc EXCEPT ![t] = "run"]
      /\ UNCHANGED <<writeCount, seen, requests, crash>>
  BY DEF StoreEmpty, Goto
<1>2. /\ pc'[t] = "run" /\ pc' \in [Thread -> Pc]
      /\ \A u \in Thread : u # t => pc'[u] = pc[u]
  BY <1>1 DEF TypeOK, Pc
<1>3. flag.writer = t /\ held[t] = <<"w">> /\ writeCount = 0
  BY <1>1 DEF Owner
<1>4. \A u \in Thread : u # t => held[u] = <<>>
  BY <1>3 DEF Alone
<1>5. held[t] \in Seq(Mode) /\ held[t] # <<>> /\ Len(held[t]) = 1 /\ Last(held[t]) = "w"
  BY <1>3 DEF TypeOK, Mode, Last
<1>6. Len(held[t]) <= MaxRequest /\ Len(held[t]) <= requests[t]
  BY <1>5, MaxRequestAssumption DEF Asked, TypeOK
<1>7. /\ held' \in [Thread -> Seq(Mode)]
      /\ held'[t] = Front(held[t])
      /\ \A u \in Thread : u # t => held'[u] = held[u]
      /\ ReadGuards' = ReadGuards
  BY <1>1, <1>5, <1>6, DropGuard
<1>8. held'[t] = <<>>
  <2>1. Front(held[t]) \in Seq(Mode) /\ Len(Front(held[t])) = 0
    BY <1>5, FrontGuard
  <2>. QED
    BY <1>7, <2>1
<1>9. \A u \in Thread : held'[u] = <<>>
  BY <1>4, <1>7, <1>8
<1>10. ReadGuards' = {}
  BY <1>9 DEF ReadGuards, Guards
<1>11. TypeOK'
  BY <1>1, <1>2, <1>7 DEF TypeOK, Mode, Empty
<1>12. ReadsLast' /\ Alone'
  BY <1>9 DEF ReadsLast, Alone
<1>13. Asked'
  <2>1. Len(held'[t]) <= requests'[t]
    BY <1>1, <1>8, MaxRequestAssumption DEF TypeOK
  <2>2. ~Competes(t)'
    BY <1>2 DEF Competes
  <2>3. \A u \in Thread : u # t =>
          held'[u] = held[u] /\ requests'[u] = requests[u] /\ (Competes(u)' <=> Competes(u))
    BY <1>1, <1>2, <1>7 DEF Competes
  <2>. HIDE DEF IInv
  <2>4. Asked
    BY DEF IInv
  <2>. QED
    BY ONLY <2>1, <2>2, <2>3, <2>4 DEF Asked
<1>14. \A u \in Thread : u # t => pc[u] \notin {"countWrite", "storeEmpty"}
  BY <1>3 DEF Owner
<1>15. Owner'
  BY <1>1, <1>2, <1>3, <1>9, <1>14, NobodyAssumption DEF Owner, Empty, ToSet
<1>16. Counted'
  BY <1>1, <1>10, FS_EmptySet DEF Counted, Empty
<1>. QED
  BY <1>1, <1>11, <1>12, <1>13, <1>15, <1>16

\* A read guard begins, in BeginRead or in CasRead: no other thread writes.
LEMMA ReadBegins ==
  ASSUME IInv, NEW t \in Thread, Take(t, "r"), Len(held[t]) + 1 <= MaxRequest,
         flag.writer \in {t, Nobody},
         flag' = [flag EXCEPT !.readers = @ + 1], writeCount' = writeCount,
         flag.writer = t => pc[t] = "run" /\ pc' = pc,
         pc' \in [Thread -> Pc], pc'[t] = "run",
         \A u \in Thread : u # t => pc'[u] = pc[u]
  PROVE  /\ held' \in [Thread -> Seq(Mode)]
         /\ Len(held'[t]) = Len(held[t]) + 1
         /\ \A u \in Thread : u # t => held'[u] = held[u]
         /\ ReadsLast' /\ Alone' /\ Owner' /\ Counted'
         /\ flag' \in [writer : Thread \cup {Nobody}, readers : Nat]
<1>. USE DEF IInv
<1>1. /\ held' \in [Thread -> Seq(Mode)]
      /\ held'[t] = Append(held[t], "r")
      /\ \A u \in Thread : u # t => held'[u] = held[u]
  BY TakeGuard DEF Mode
<1>2. held[t] \in Seq(Mode) /\ t # Nobody
  BY NobodyAssumption DEF TypeOK, Mode
<1>3. Len(held'[t]) = Len(held[t]) + 1
  BY <1>1, <1>2, AppendGuard DEF Mode
<1>4. ReadsLast'
  BY <1>1, TakeKeepsReadsLast DEF Mode
<1>5. /\ flag' \in [writer : Thread \cup {Nobody}, readers : Nat]
      /\ flag'.writer = flag.writer /\ flag'.readers = flag.readers + 1
  BY DEF TypeOK
<1>6. Alone'
  BY <1>1, <1>5, NobodyAssumption DEF Alone
<1>7. At(held'[t], "w") = At(held[t], "w")
  BY <1>1, <1>2, AtAppend DEF Mode
<1>8. \A u \in Thread : At(held'[u], "w") = At(held[u], "w")
  BY <1>1, <1>7
<1>9. \A u \in Thread : Guards(u, "w")' = Guards(u, "w")
  BY <1>8 DEF Guards, At
<1>10. \A u \in Thread : "w" \in ToSet(held'[u]) <=> "w" \in ToSet(held[u])
  BY <1>8, ToSetAt
<1>11. Owner'
  <2>1. CASE flag.writer = t
    BY <1>2, <1>5, <1>9, <1>10, <2>1, <1>1 DEF Owner, Competes
  <2>2. CASE flag.writer = Nobody
    BY <1>2, <1>5, <1>10, <2>2, NobodyAssumption DEF Owner
  <2>. QED
    BY <2>1, <2>2
<1>12. Counted'
  <2>. DEFINE g == <<t, Len(held[t]) + 1>>
  <2>1. ReadGuards' = ReadGuards \cup {g} /\ g \notin ReadGuards
    BY TakeGuard DEF Mode
  <2>. HIDE DEF g
  <2>2. IsFiniteSet(ReadGuards') /\ Cardinality(ReadGuards') = Cardinality(ReadGuards) + 1
    BY <2>1, FS_AddElement DEF Counted
  <2>. QED
    BY <1>5, <2>2 DEF Counted
<1>. QED
  BY <1>1, <1>3, <1>4, <1>5, <1>6, <1>11, <1>12

LEMMA BeginReadInv ==
  ASSUME IInv, NEW t \in Thread, BeginRead(t)
  PROVE  IInv'
<1>. USE DEF IInv
<1>1. /\ pc[t] = "run" /\ requests[t] < MaxRequest
      /\ requests' = [requests EXCEPT ![t] = @ + 1]
      /\ UNCHANGED <<writeCount, seen, crash>>
  BY DEF BeginRead, Request
<1>2. /\ Len(held[t]) \in Nat /\ requests[t] \in Nat /\ requests'[t] = requests[t] + 1
      /\ requests' \in [Thread -> 0 .. MaxRequest]
      /\ \A u \in Thread : u # t => requests'[u] = requests[u]
      /\ Len(held[t]) <= requests[t]
  BY <1>1, MaxRequestAssumption DEF TypeOK, Asked
<1>3. CASE flag.writer = t
  <2>1. /\ Take(t, "r") /\ flag' = [flag EXCEPT !.readers = @ + 1] /\ pc' = pc
        /\ Len(held[t]) + 1 <= MaxRequest
    BY <1>1, <1>2, <1>3, MaxRequestAssumption DEF BeginRead
  <2>2. /\ held' \in [Thread -> Seq(Mode)]
        /\ Len(held'[t]) = Len(held[t]) + 1
        /\ \A u \in Thread : u # t => held'[u] = held[u]
        /\ ReadsLast' /\ Alone' /\ Owner' /\ Counted'
        /\ flag' \in [writer : Thread \cup {Nobody}, readers : Nat]
    BY <1>1, <1>3, <2>1, ReadBegins DEF TypeOK
  <2>3. TypeOK'
    BY <1>1, <1>2, <2>1, <2>2 DEF TypeOK, Mode
  <2>4. ASSUME NEW u \in Thread
        PROVE  Len(held'[u]) <= requests'[u] /\ (Competes(u)' => Len(held'[u]) + 1 <= requests'[u])
    <3>1. CASE u = t
      BY <1>1, <1>2, <2>1, <2>2, <3>1 DEF Competes
    <3>2. CASE u # t
      BY <1>1, <1>2, <2>1, <2>2, <3>2 DEF Asked, Competes
    <3>. QED
      BY <3>1, <3>2
  <2>5. Asked'
    BY <2>4 DEF Asked
  <2>. QED
    BY <1>1, <2>2, <2>3, <2>5
<1>4. CASE flag.writer # t
  <2>1. pc' = [pc EXCEPT ![t] = "loadRead"] /\ UNCHANGED <<flag, held>>
    BY <1>4 DEF BeginRead, Goto
  <2>2. /\ pc'[t] = "loadRead" /\ pc' \in [Thread -> Pc]
        /\ \A u \in Thread : u # t => pc'[u] = pc[u]
    BY <2>1 DEF TypeOK, Pc
  <2>3. TypeOK'
    BY <1>1, <1>2, <2>1, <2>2 DEF TypeOK
  <2>4. ReadsLast' /\ Alone' /\ Counted'
    BY <2>1 DEF ReadsLast, Alone, Counted, ReadGuards, Guards
  <2>5. Asked'
    BY <1>2, <2>1, <2>2 DEF Asked, Competes
  <2>6. \A u : Guards(u, "w")' = Guards(u, "w")
    BY <2>1 DEF Guards
  <2>7. Owner'
    BY <1>1, <1>4, <2>1, <2>2, <2>6 DEF Owner, Competes
  <2>. QED
    BY <1>1, <2>3, <2>4, <2>5, <2>7
<1>. QED
  BY <1>3, <1>4

\* ReadLock goes on competing: it reads the word or starts over.
LEMMA CompeteInv ==
  ASSUME IInv, NEW t \in Thread, Competes(t),
         NEW l \in {"loadRead", "casRead"}, pc' = [pc EXCEPT ![t] = l],
         seen' \in [Thread -> Nat],
         UNCHANGED <<flag, writeCount, held, requests, crash>>
  PROVE  IInv'
<1>. USE DEF IInv
<1>1. /\ pc'[t] = l /\ pc' \in [Thread -> Pc]
      /\ \A u \in Thread : u # t => pc'[u] = pc[u]
  BY DEF TypeOK, Pc
<1>2. TypeOK'
  BY <1>1 DEF TypeOK
<1>3. ReadsLast' /\ Alone' /\ Counted'
  BY DEF ReadsLast, Alone, Counted, ReadGuards, Guards
<1>4. Asked'
  BY <1>1 DEF Asked, Competes
<1>5. \A u : Guards(u, "w")' = Guards(u, "w")
  BY DEF Guards
<1>6. flag.writer # t
  BY DEF Owner
<1>7. Owner'
  BY <1>1, <1>5, <1>6 DEF Owner, Competes
<1>. QED
  BY <1>2, <1>3, <1>4, <1>7

LEMMA LoadReadInv ==
  ASSUME IInv, NEW t \in Thread, LoadRead(t)
  PROVE  IInv'
<1>1. /\ Competes(t) /\ pc' = [pc EXCEPT ![t] = "casRead"]
      /\ UNCHANGED <<flag, writeCount, held, requests, crash>>
  BY DEF LoadRead, Goto, Competes
<1>2. seen' \in [Thread -> Nat]
  BY DEF LoadRead, IInv, TypeOK
<1>. QED
  BY <1>1, <1>2, CompeteInv

LEMMA CasReadInv ==
  ASSUME IInv, NEW t \in Thread, CasRead(t)
  PROVE  IInv'
<1>1. /\ pc[t] = "casRead" /\ Competes(t)
      /\ UNCHANGED <<writeCount, seen, requests, crash>>
  BY DEF CasRead, Competes
<1>2. CASE flag = [writer |-> Nobody, readers |-> seen[t]]
  <2>1. /\ flag' = [flag EXCEPT !.readers = @ + 1] /\ Take(t, "r")
        /\ pc' = [pc EXCEPT ![t] = "run"]
    BY <1>2 DEF CasRead, Goto
  <2>2. flag.writer = Nobody /\ flag.writer # t
    BY <1>2, NobodyAssumption
  <2>3. /\ pc'[t] = "run" /\ pc' \in [Thread -> Pc]
        /\ \A u \in Thread : u # t => pc'[u] = pc[u]
    BY <2>1 DEF IInv, TypeOK, Pc
  <2>4. /\ Len(held[t]) + 1 <= MaxRequest /\ Len(held[t]) + 1 <= requests[t]
        /\ Len(held[t]) \in Nat
    BY <1>1, MaxRequestAssumption DEF IInv, Asked, TypeOK
  <2>5. /\ held' \in [Thread -> Seq(Mode)]
        /\ Len(held'[t]) = Len(held[t]) + 1
        /\ \A u \in Thread : u # t => held'[u] = held[u]
        /\ ReadsLast' /\ Alone' /\ Owner' /\ Counted'
        /\ flag' \in [writer : Thread \cup {Nobody}, readers : Nat]
    BY <1>1, <2>1, <2>2, <2>3, <2>4, ReadBegins
  <2>6. TypeOK'
    BY <1>1, <2>3, <2>5 DEF IInv, TypeOK, Mode
  <2>7. ASSUME NEW u \in Thread
        PROVE  Len(held'[u]) <= requests'[u] /\ (Competes(u)' => Len(held'[u]) + 1 <= requests'[u])
    <3>1. CASE u = t
      BY <1>1, <2>3, <2>4, <2>5, <3>1 DEF Competes
    <3>2. CASE u # t
      BY <1>1, <2>3, <2>5, <3>2 DEF IInv, Asked, Competes
    <3>. QED
      BY <3>1, <3>2
  <2>8. Asked'
    BY <2>7 DEF Asked
  <2>. QED
    BY <1>1, <2>5, <2>6, <2>8 DEF IInv
<1>3. CASE flag # [writer |-> Nobody, readers |-> seen[t]]
  <2>1. pc' = [pc EXCEPT ![t] = "loadRead"] /\ UNCHANGED <<flag, held>>
    BY <1>3 DEF CasRead, Goto
  <2>2. seen' \in [Thread -> Nat]
    BY <1>1 DEF IInv, TypeOK
  <2>. QED
    BY <1>1, <2>1, <2>2, CompeteInv
<1>. QED
  BY <1>2, <1>3

\* ReadUnlock finds a reader counted: no CRASH.
LEMMA ReadUnlockInv ==
  ASSUME IInv, NEW t \in Thread, ReadUnlock(t)
  PROVE  IInv'
<1>. USE DEF IInv
<1>1. /\ pc[t] = "run" /\ held[t] # <<>> /\ Last(held[t]) = "r" /\ Drop(t)
      /\ UNCHANGED <<writeCount, pc, seen, requests>>
  BY DEF ReadUnlock
<1>2. held[t] \in Seq(Mode) /\ Len(held[t]) \in Nat \ {0}
  BY <1>1 DEF TypeOK, Mode
<1>3. Len(held[t]) <= MaxRequest /\ Len(held[t]) <= requests[t]
  BY <1>2, MaxRequestAssumption DEF Asked, TypeOK
<1>4. PICK g : ReadGuards' = ReadGuards \ {g} /\ g \in ReadGuards
  BY <1>1, <1>3, DropGuard
<1>5. /\ held' \in [Thread -> Seq(Mode)]
      /\ held'[t] = Front(held[t])
      /\ \A u \in Thread : u # t => held'[u] = held[u]
  BY <1>1, <1>3, DropGuard
<1>6. flag.readers # 0
  BY <1>4, FS_EmptySet DEF Counted
<1>7. flag' = [flag EXCEPT !.readers = @ - 1] /\ crash' = crash
  BY <1>6 DEF ReadUnlock
<1>8. /\ flag' \in [writer : Thread \cup {Nobody}, readers : Nat]
      /\ flag'.writer = flag.writer /\ flag'.readers = flag.readers - 1
  <2>1. flag \in [writer : Thread \cup {Nobody}, readers : Nat] /\ flag.readers - 1 \in Nat
    BY <1>6 DEF TypeOK
  <2>. QED
    BY <1>7, <2>1
<1>9. TypeOK'
  BY <1>1, <1>5, <1>7, <1>8 DEF TypeOK, Mode
<1>10. ReadsLast'
  BY <1>1, <1>5, DropKeepsReadsLast
<1>11. Len(held'[t]) = Len(held[t]) - 1
  BY <1>1, <1>2, <1>5, FrontGuard
<1>12. ASSUME NEW u \in Thread
       PROVE  Len(held'[u]) <= requests'[u] /\ (Competes(u)' => Len(held'[u]) + 1 <= requests'[u])
  <2>1. CASE u = t
    BY <1>1, <1>2, <1>3, <1>11, <2>1 DEF Competes, TypeOK
  <2>2. CASE u # t
    BY <1>1, <1>5, <2>2 DEF Asked, Competes
  <2>. QED
    BY <2>1, <2>2
<1>13. Asked'
  BY <1>12 DEF Asked
<1>14. Alone'
  BY <1>1, <1>5, <1>8 DEF Alone
<1>15. At(held'[t], "w") = At(held[t], "w")
  BY <1>1, <1>2, <1>5, AtFront
<1>16. \A u \in Thread : At(held'[u], "w") = At(held[u], "w")
  BY <1>5, <1>15
<1>17. \A u \in Thread : Guards(u, "w")' = Guards(u, "w")
  BY <1>16 DEF Guards, At
<1>18. \A u \in Thread : "w" \in ToSet(held'[u]) <=> "w" \in ToSet(held[u])
  BY <1>16, ToSetAt
<1>19. Owner'
  <2>1. CASE flag.writer = t
    BY <1>1, <1>8, <1>17, <1>18, <2>1 DEF Owner, Competes
  <2>2. CASE flag.writer # t
    BY <1>1, <1>5, <1>8, <1>17, <1>18, <2>2 DEF Owner, Competes
  <2>. QED
    BY <2>1, <2>2
<1>20. Counted'
  <2>1. IsFiniteSet(ReadGuards') /\ Cardinality(ReadGuards') = Cardinality(ReadGuards) - 1
    BY <1>4, FS_RemoveElement DEF Counted
  <2>. QED
    BY <1>8, <2>1 DEF Counted
<1>. QED
  BY <1>7, <1>9, <1>10, <1>13, <1>14, <1>19, <1>20

\* A time-out, or no step at all, leaves what the invariant speaks about.
LEMMA TimeOutInv ==
  ASSUME IInv,
         UNCHANGED <<flag, writeCount, pc, seen, held, requests>>,
         crash' \in {crash, "timeout"}
  PROVE  IInv'
<1>. USE DEF IInv
<1>1. TypeOK' /\ crash' # "unlock"
  BY DEF TypeOK
<1>2. ReadsLast' /\ Asked' /\ Alone' /\ Counted'
  BY DEF ReadsLast, Asked, Competes, Alone, Counted, ReadGuards, Guards
<1>3. \A u : Guards(u, "w")' = Guards(u, "w")
  BY DEF Guards
<1>4. Owner'
  BY <1>3 DEF Owner, Competes
<1>. QED
  BY <1>1, <1>2, <1>4

\* Every access to the word and to _write_count keeps the invariant
\* (Lock.cpp:4-91).
THEOREM NextInv == IInv /\ [Next]_vars => IInv'
<1>. SUFFICES ASSUME IInv, [Next]_vars PROVE IInv'
  OBVIOUS
<1>1. CASE UNCHANGED vars
  BY <1>1, TimeOutInv DEF vars
<1>2. CASE Next
  <2>1. PICK t \in Thread : Acquire(t) \/ Advance(t) \/ TimeOut(t)
    BY <1>2 DEF Next
  <2>2. CASE Acquire(t)
    BY <2>2, BeginWriteInv, BeginReadInv DEF Acquire
  <2>3. CASE Advance(t)
    BY <2>3, CasWriteInv, CountWriteInv, CountUnlockInv, StoreEmptyInv,
       LoadReadInv, CasReadInv, ReadUnlockInv DEF Advance
  <2>4. CASE TimeOut(t)
    BY <2>4, TimeOutInv DEF TimeOut
  <2>. QED
    BY <2>1, <2>2, <2>3, <2>4
<1>. QED
  BY <1>1, <1>2

\* Whatever the interleaving of the threads, the word, _write_count and the guards
\* alive agree as IInv says.
THEOREM Invariance == Spec => []IInv
  BY InitInv, NextInv, PTL DEF Spec

-----------------------------------------------------------------------------
(* What the invariant gives                                                *)

\* The word, the counts and the guards keep their types: in particular
\* _write_count and the reader half are never decremented below zero
\* (Lock.cpp:49, Lock.cpp:89).
THEOREM TypeCorrect == Spec => []TypeOK
<1>1. IInv => TypeOK
  BY DEF IInv
<1>. QED
  BY <1>1, Invariance, PTL

\* No guard that ends meets the CRASH "Invalid unlock" of WriteUnlock or
\* ReadUnlock (Lock.cpp:47, Lock.cpp:90), since the word and _write_count
\* count the guards alive.
THEOREM CountsGuards == Spec => []WordCountsGuards
<1>1. IInv => WordCountsGuards
  BY DEF IInv, WordCountsGuards, Owner, Counted
<1>. QED
  BY <1>1, Invariance, PTL

\* _write_count is not atomic and need not be (Lock.h:35): whoever changes it
\* is in the writer half of the word before and after.
THEOREM CountIsTheOwners == Spec => CountsAsOwner
<1>. DEFINE A == writeCount' # writeCount =>
                   /\ flag.writer # Nobody
                   /\ flag'.writer = flag.writer
                   /\ \A u \in Thread \ {flag.writer} :
                        /\ pc'[u] = pc[u]
                        /\ held'[u] = held[u]
                        /\ requests'[u] = requests[u]
<1>1. IInv /\ [Next]_vars => [A]_vars
  <2>. SUFFICES ASSUME IInv, Next, writeCount' # writeCount PROVE A
    BY DEF vars
  <2>1. PICK t \in Thread : Acquire(t) \/ Advance(t) \/ TimeOut(t)
    BY DEF Next
  <2>2. BeginWrite(t) \/ CountWrite(t) \/ CountUnlock(t)
    BY <2>1 DEF Acquire, Advance, TimeOut, CasWrite, StoreEmpty, BeginRead,
         LoadRead, CasRead, ReadUnlock
  <2>3. flag.writer = t /\ flag' = flag
    <3>1. CASE BeginWrite(t)
      BY <3>1 DEF BeginWrite
    <3>2. CASE CountWrite(t)
      BY <3>2 DEF CountWrite, IInv, Owner
    <3>3. CASE CountUnlock(t)
      BY <3>3, UnlockFindsNoReader DEF CountUnlock
    <3>. QED
      BY <2>2, <3>1, <3>2, <3>3
  <2>4. \A u \in Thread : u # t =>
          pc'[u] = pc[u] /\ held'[u] = held[u] /\ requests'[u] = requests[u]
    BY <2>2 DEF BeginWrite, Request, CountWrite, CountUnlock, Goto, Take, Drop, IInv, TypeOK
  <2>. QED
    BY <2>3, <2>4, NobodyAssumption
<1>2. CountsAsOwner <=> [][A]_vars
  BY DEF CountsAsOwner
<1>. QED
  BY <1>1, <1>2, Invariance, PTL DEF Spec

\* Every step that changes the guards is one the policy of Lock.h:8-13 allows.
LEMMA StepKeepsPolicy ==
  IInv /\ [Next]_vars => [Abstract!Next]_held
<1>. SUFFICES ASSUME IInv, Next, held' # held PROVE Abstract!Next
  BY DEF vars
<1>. USE DEF IInv
<1>1. PICK t \in Thread : Acquire(t) \/ Advance(t) \/ TimeOut(t)
  BY DEF Next
<1>2. CASE BeginWrite(t)
  <2>1. flag.writer = t /\ Take(t, "w")
    BY <1>2 DEF BeginWrite
  <2>2. (\A u \in Thread : u # t => held[u] = <<>>) /\ "w" \in ToSet(held[t])
    BY <2>1 DEF Alone, Owner
  <2>. QED
    BY <2>1, <2>2 DEF Take, ToSet, Abstract!ToSet, Abstract!Next, Abstract!AcquireWrite,
         Abstract!Others, Abstract!Writes
<1>3. CASE CasWrite(t)
  <2>1. flag = Empty /\ Take(t, "w")
    BY <1>3 DEF CasWrite
  <2>2. \A u \in Thread : held[u] = <<>>
    BY <2>1, EmptyWord
  <2>. QED
    BY <2>1, <2>2 DEF Take, Abstract!Next, Abstract!AcquireWrite, Abstract!Others
<1>4. CASE BeginRead(t) \/ CasRead(t)
  <2>1. Take(t, "r") /\ flag.writer \in {t, Nobody}
    BY <1>4 DEF BeginRead, CasRead
  <2>2. \A u \in Thread : u # t => "w" \notin ToSet(held[u])
    BY <2>1, NobodyAssumption DEF Owner
  <2>. QED
    BY <2>1, <2>2 DEF Take, ToSet, Abstract!ToSet, Abstract!Next, Abstract!AcquireRead,
         Abstract!Others, Abstract!Writes
<1>5. CASE CountUnlock(t) \/ StoreEmpty(t) \/ ReadUnlock(t)
  <2>1. Drop(t)
    BY <1>5 DEF CountUnlock, StoreEmpty, ReadUnlock
  <2>2. held[t] # <<>>
    BY <1>5 DEF CountUnlock, EndsWrite, StoreEmpty, ReadUnlock, Owner
  <2>. QED
    BY <2>1, <2>2 DEF Drop, Front, Abstract!Front, Abstract!Next, Abstract!Release
<1>. QED
  BY <1>1, <1>2, <1>3, <1>4, <1>5 DEF Acquire, Advance, TimeOut, CountWrite, LoadRead

\* Lock is a lock with the policy of Lock.h:8-13.
THEOREM ImplementsPolicy == Spec => GrantsByPolicy
<1>1. Init => Abstract!Init
  BY DEF Init, Abstract!Init
<1>. QED
  BY <1>1, StepKeepsPolicy, Invariance, PTL DEF Spec, GrantsByPolicy, Abstract!Spec
=============================================================================
