--------------------------- MODULE ESLedgerProofs ---------------------------
(***************************************************************************)
(* What the reservation files and the answers to RID say of the seats of   *)
(* an event, and which of its files LMR tells a user of.  Seats are added  *)
(* up over a set of files, so the first part shows what such a sum is:     *)
(* that the recursion MapThenSumSet is made of has a solution, and that    *)
(* the order in which it takes the files does not matter.  It argues by    *)
(* induction on the number of files, from the fact that every set of       *)
(* numbers has a least one, and so do the facts about the first names.     *)
(***************************************************************************)
EXTENDS ESLifecycleProofs, FiniteSetTheorems, FunctionTheorems, WellFoundedInduction

LEMMA LeastNumber ==
    ASSUME NEW N, N \subseteq Nat, N # {}
    PROVE  \E n \in N : \A m \in N : n <= m
<1> DEFINE less == OpToRel(<, Nat)
<1>1. \A m, n \in Nat : m < n => <<m, n>> \in less
  BY Zenon DEF OpToRel
<1>2. IsWellFoundedOn(less, Nat)
  BY NatLessThanWellFounded
<1> HIDE DEF less
<1>3. PICK n \in N : \A m \in N : <<m, n>> \notin less
  BY <1>2, WFMin
<1>4. \A m \in N : ~(m < n)
  BY <1>1, <1>3
<1> QED
  BY <1>4

LEMMA NatIsInductive ==
    ASSUME NEW G \in SUBSET Nat, 0 \in G, \A n \in G : n + 1 \in G
    PROVE  G = Nat
<1> SUFFICES ASSUME Nat \ G # {}
             PROVE  FALSE
  OBVIOUS
<1>1. PICK n \in Nat \ G : \A m \in Nat \ G : n <= m
  BY LeastNumber
<1>2. n - 1 \in Nat /\ ~(n <= n - 1) /\ n = (n - 1) + 1
  OBVIOUS
<1>3. n - 1 \in G
  BY <1>1, <1>2
<1> QED
  BY <1>2, <1>3

-----------------------------------------------------------------------------
(* Sums of seats *)

Pick(s) == CHOOSE x \in s : TRUE

SumStep(g, s) == IF s = {} THEN 0 ELSE Pick(s).seats + g[s \ {Pick(s)}]

IsSum(g, S) == g = [s \in SUBSET S |-> SumStep(g, s)]

LEMMA SeatsInIs ==
    ASSUME NEW S
    PROVE  SeatsIn(S) = (CHOOSE g : IsSum(g, S))[S]
BY Zenon DEF SeatsIn, MapThenSumSet, MapThenFoldSet, IsSum, SumStep, Pick

\* What is true of the subsets of 0 elements, and of n + 1 if of n, is true of all.
LEMMA SubsetInduction ==
    ASSUME NEW S, IsFiniteSet(S), NEW P \in SUBSET SUBSET S,
           {} \in P,
           \A s \in SUBSET S : (s # {} /\ \A x \in s : s \ {x} \in P) => s \in P
    PROVE  P = SUBSET S
<1> DEFINE G == {n \in Nat : \A s \in SUBSET S : Cardinality(s) = n => s \in P}
<1>1. \A s \in SUBSET S : IsFiniteSet(s) /\ Cardinality(s) \in Nat
  BY FS_Subset, FS_CardinalityType
<1>2. 0 \in G
  BY <1>1, FS_EmptySet
<1>3. ASSUME NEW n \in G
      PROVE  n + 1 \in G
  <2>1. ASSUME NEW s \in SUBSET S, Cardinality(s) = n + 1
        PROVE  s \in P
    <3>1. s # {}
      BY <2>1, FS_EmptySet
    <3>2. ASSUME NEW x \in s
          PROVE  s \ {x} \in P
      <4>1. Cardinality(s \ {x}) = n
        BY <1>1, <2>1, FS_RemoveElement
      <4> QED
        BY <4>1
    <3> QED
      BY <3>1, <3>2
  <2> QED
    BY <2>1
<1>4. G = Nat
  <2> HIDE DEF G
  <2>1. G \in SUBSET Nat
    BY DEF G
  <2> QED
    BY <1>2, <1>3, <2>1, NatIsInductive
<1> QED
  BY <1>1, <1>4

\* The recursion in MapThenSumSet has a solution.
LEMMA SumExists ==
    ASSUME NEW S, IsFiniteSet(S)
    PROVE  \E g : IsSum(g, S)
<1> DEFINE G == {n \in Nat : \E g : /\ g = [s \in SUBSET S |-> g[s]]
                                   /\ \A s \in SUBSET S : Cardinality(s) <= n => g[s] = SumStep(g, s)}
<1>1. \A s \in SUBSET S : IsFiniteSet(s) /\ Cardinality(s) \in Nat /\ Cardinality(s) <= Cardinality(S)
  BY FS_Subset, FS_CardinalityType
<1>2. \A s \in SUBSET S : s # {} => /\ Pick(s) \in s
                                    /\ s \ {Pick(s)} \in SUBSET S
                                    /\ Cardinality(s \ {Pick(s)}) = Cardinality(s) - 1
  BY <1>1, FS_RemoveElement DEF Pick
<1>3. 0 \in G
  <2> DEFINE g == [s \in SUBSET S |-> 0]
  <2>1. \A s \in SUBSET S : Cardinality(s) <= 0 => s = {}
    BY <1>1, FS_EmptySet
  <2>2. \A s \in SUBSET S : Cardinality(s) <= 0 => g[s] = SumStep(g, s)
    BY <2>1 DEF SumStep
  <2>3. g = [s \in SUBSET S |-> g[s]]
    OBVIOUS
  <2> QED
    BY <2>2, <2>3
<1>4. ASSUME NEW n \in G
      PROVE  n + 1 \in G
  <2>1. PICK g : /\ g = [s \in SUBSET S |-> g[s]]
                 /\ \A s \in SUBSET S : Cardinality(s) <= n => g[s] = SumStep(g, s)
    OBVIOUS
  <2> DEFINE h == [s \in SUBSET S |-> IF Cardinality(s) <= n THEN g[s] ELSE SumStep(g, s)]
  <2>2. ASSUME NEW s \in SUBSET S, Cardinality(s) <= n + 1
        PROVE  h[s] = SumStep(h, s)
    <3>1. h[s] = SumStep(g, s)
      BY <2>1
    <3>2. CASE s = {}
      BY <3>1, <3>2 DEF SumStep
    <3>3. CASE s # {}
      <4>1. s \ {Pick(s)} \in SUBSET S /\ Cardinality(s \ {Pick(s)}) <= n
        BY <1>1, <1>2, <2>2, <3>3
      <4>2. h[s \ {Pick(s)}] = g[s \ {Pick(s)}]
        BY <4>1
      <4> HIDE DEF h
      <4> QED
        BY <3>1, <4>2 DEF SumStep
    <3> QED
      BY <3>2, <3>3
  <2>3. h = [s \in SUBSET S |-> h[s]]
    OBVIOUS
  <2> HIDE DEF h
  <2>4. \E f : /\ f = [s \in SUBSET S |-> f[s]]
              /\ \A s \in SUBSET S : Cardinality(s) <= n + 1 => f[s] = SumStep(f, s)
    BY <2>2, <2>3
  <2>5. n + 1 \in Nat
    OBVIOUS
  <2> QED
    BY <2>4, <2>5
<1>5. Cardinality(S) \in G
  <2> HIDE DEF G
  <2>1. G \in SUBSET Nat
    BY DEF G
  <2>2. G = Nat
    BY <1>3, <1>4, <2>1, NatIsInductive
  <2> QED
    BY <1>1, <2>2
<1>6. PICK g : /\ g = [s \in SUBSET S |-> g[s]]
               /\ \A s \in SUBSET S : Cardinality(s) <= Cardinality(S) => g[s] = SumStep(g, s)
  BY <1>5
<1>7. \A s \in SUBSET S : g[s] = SumStep(g, s)
  BY <1>1, <1>6
<1>8. [s \in SUBSET S |-> g[s]] = [s \in SUBSET S |-> SumStep(g, s)]
  BY <1>7
<1> QED
  BY <1>6, <1>8 DEF IsSum

\* Solutions over two sets agree on the subsets they share.
LEMMA SumUnique ==
    ASSUME NEW S, IsFiniteSet(S), NEW T \in SUBSET S,
           NEW g, IsSum(g, S), NEW h, IsSum(h, T)
    PROVE  \A s \in SUBSET T : g[s] = h[s]
<1> DEFINE P == {s \in SUBSET T : g[s] = h[s]}
<1>1. \A s \in SUBSET T : g[s] = SumStep(g, s) /\ h[s] = SumStep(h, s)
  BY DEF IsSum
<1>2. {} \in P
  BY <1>1 DEF SumStep
<1>3. ASSUME NEW s \in SUBSET T, s # {}, \A x \in s : s \ {x} \in P
      PROVE  s \in P
  <2>1. Pick(s) \in s
    BY <1>3 DEF Pick
  <2>2. g[s \ {Pick(s)}] = h[s \ {Pick(s)}]
    BY <1>3, <2>1
  <2>3. g[s] = h[s]
    BY <1>1, <1>3, <2>2 DEF SumStep
  <2> QED
    BY <2>3
<1>4. IsFiniteSet(T) /\ P \in SUBSET SUBSET T
  BY FS_Subset
<1>5. P = SUBSET T
  <2> HIDE DEF P
  <2> QED
    BY <1>2, <1>3, <1>4, SubsetInduction
<1> QED
  BY <1>5

\* The sum of no seats, and the sum with the file taken first.
LEMMA SumOfNone == SeatsIn({}) = 0
<1>1. IsFiniteSet({})
  BY FS_EmptySet
<1>2. IsSum(CHOOSE g : IsSum(g, {}), {})
  BY <1>1, SumExists
<1> QED
  BY <1>2, SeatsInIs DEF IsSum, SumStep

LEMMA SumPicked ==
    ASSUME NEW S, IsFiniteSet(S), S # {}
    PROVE  Pick(S) \in S /\ SeatsIn(S) = Pick(S).seats + SeatsIn(S \ {Pick(S)})
<1> DEFINE T == S \ {Pick(S)}
           g == CHOOSE f : IsSum(f, S)
           h == CHOOSE f : IsSum(f, T)
<1>1. Pick(S) \in S
  BY DEF Pick
<1>2. T \in SUBSET S /\ IsFiniteSet(T)
  BY FS_RemoveElement
<1>3. SeatsIn(S) = g[S] /\ SeatsIn(T) = h[T]
  BY SeatsInIs
<1> HIDE DEF T
<1>4. IsSum(g, S) /\ IsSum(h, T)
  BY <1>2, SumExists
<1> HIDE DEF g, h
<1>5. g[T] = h[T]
  BY <1>2, <1>4, SumUnique
<1>6. g[S] = Pick(S).seats + g[T]
  BY <1>4 DEF IsSum, SumStep, T
<1> QED
  BY <1>1, <1>3, <1>5, <1>6 DEF T

\* The files an event can have.
Countable(S) == IsFiniteSet(S) /\ \A f \in S : f.seats \in Nat

LEMMA SumNat ==
    ASSUME NEW S, Countable(S)
    PROVE  SeatsIn(S) \in Nat
<1> DEFINE P == {s \in SUBSET S : SeatsIn(s) \in Nat}
<1>1. {} \in P
  BY SumOfNone
<1>2. ASSUME NEW s \in SUBSET S, s # {}, \A x \in s : s \ {x} \in P
      PROVE  s \in P
  <2>1. IsFiniteSet(s)
    BY FS_Subset DEF Countable
  <2>2. Pick(s) \in s /\ SeatsIn(s) = Pick(s).seats + SeatsIn(s \ {Pick(s)})
    BY <1>2, <2>1, SumPicked
  <2>3. Pick(s).seats \in Nat /\ SeatsIn(s \ {Pick(s)}) \in Nat
    BY <1>2, <2>2 DEF Countable
  <2> QED
    BY <2>2, <2>3
<1>3. P = SUBSET S
  <2> HIDE DEF P
  <2>1. P \in SUBSET SUBSET S
    BY DEF P
  <2> QED
    BY <1>1, <1>2, <2>1, SubsetInduction DEF Countable
<1> QED
  BY <1>3

\* Whichever file is taken first, the sum is the same.
LEMMA SumTaken ==
    ASSUME NEW S, Countable(S), NEW x \in S
    PROVE  SeatsIn(S) = x.seats + SeatsIn(S \ {x})
<1> DEFINE P == {s \in SUBSET S : \A f \in s : SeatsIn(s) = f.seats + SeatsIn(s \ {f})}
<1>0. \A s \in SUBSET S : Countable(s) /\ SeatsIn(s) \in Nat
  <2> SUFFICES ASSUME NEW s \in SUBSET S
               PROVE  Countable(s) /\ SeatsIn(s) \in Nat
    OBVIOUS
  <2>1. Countable(s)
    BY FS_Subset DEF Countable
  <2> QED
    BY <2>1, SumNat
<1>1. {} \in P
  OBVIOUS
<1>2. ASSUME NEW s \in SUBSET S, s # {}, \A f \in s : s \ {f} \in P
      PROVE  s \in P
  <2> SUFFICES ASSUME NEW f \in s
               PROVE  SeatsIn(s) = f.seats + SeatsIn(s \ {f})
    OBVIOUS
  <2> DEFINE c == Pick(s)
  <2>1. IsFiniteSet(s) /\ IsFiniteSet(s \ {f})
    BY <1>0, FS_RemoveElement DEF Countable
  <2>2. c \in s /\ SeatsIn(s) = c.seats + SeatsIn(s \ {c})
    BY <1>2, <2>1, SumPicked
  <2> HIDE DEF c
  <2>3. CASE f = c
    BY <2>2, <2>3
  <2>4. CASE f # c
    <3>1. SeatsIn(s \ {c}) = f.seats + SeatsIn((s \ {c}) \ {f})
      BY <1>2, <2>2, <2>4
    <3>2. SeatsIn(s \ {f}) = c.seats + SeatsIn((s \ {f}) \ {c})
      BY <1>2, <2>2, <2>4
    <3>3. (s \ {c}) \ {f} = (s \ {f}) \ {c}
      OBVIOUS
    <3>4. (s \ {c}) \ {f} \in SUBSET S /\ c \in S /\ f \in S
      BY <2>2
    <3>5. SeatsIn((s \ {c}) \ {f}) \in Nat /\ c.seats \in Nat /\ f.seats \in Nat
      BY <1>0, <3>4 DEF Countable
    <3> DEFINE k == SeatsIn((s \ {c}) \ {f})   m == c.seats   n == f.seats
    <3>6. SeatsIn(s) = m + (n + k) /\ SeatsIn(s \ {f}) = m + k
      BY <2>2, <3>1, <3>2, <3>3
    <3>7. k \in Nat /\ m \in Nat /\ n \in Nat
      BY <3>5
    <3> HIDE DEF k, m, n
    <3>8. m + (n + k) = n + (m + k)
      BY <3>7
    <3> QED
      BY <3>6, <3>8 DEF n
  <2> QED
    BY <2>3, <2>4
<1>3. P = SUBSET S
  <2> HIDE DEF P
  <2>1. P \in SUBSET SUBSET S
    BY DEF P
  <2> QED
    BY <1>1, <1>2, <2>1, SubsetInduction DEF Countable
<1>4. S \in P
  BY <1>3
<1> QED
  BY <1>4

\* Fewer files have no more seats.
LEMMA SumMonotonic ==
    ASSUME NEW S, Countable(S), NEW T \in SUBSET S
    PROVE  SeatsIn(T) <= SeatsIn(S)
<1> DEFINE P == {s \in SUBSET S : \A t \in SUBSET s : SeatsIn(t) <= SeatsIn(s)}
<1>0. \A s \in SUBSET S : Countable(s) /\ SeatsIn(s) \in Nat
  <2> SUFFICES ASSUME NEW s \in SUBSET S
               PROVE  Countable(s) /\ SeatsIn(s) \in Nat
    OBVIOUS
  <2>1. Countable(s)
    BY FS_Subset DEF Countable
  <2> QED
    BY <2>1, SumNat
<1>1. {} \in P
  BY SumOfNone
<1>2. ASSUME NEW s \in SUBSET S, s # {}, \A f \in s : s \ {f} \in P
      PROVE  s \in P
  <2> SUFFICES ASSUME NEW t \in SUBSET s
               PROVE  SeatsIn(t) <= SeatsIn(s)
    OBVIOUS
  <2>1. CASE t = s
    BY <1>0, <2>1
  <2>2. CASE t # s
    <3>1. PICK f \in s : f \notin t
      BY <2>2
    <3>2. SeatsIn(s) = f.seats + SeatsIn(s \ {f})
      BY <1>0, SumTaken
    <3>3. SeatsIn(t) <= SeatsIn(s \ {f})
      BY <1>2, <3>1
    <3>4. SeatsIn(t) \in Nat /\ SeatsIn(s \ {f}) \in Nat /\ f.seats \in Nat
      <4>1. t \in SUBSET S /\ s \ {f} \in SUBSET S /\ f \in S
        OBVIOUS
      <4> QED
        BY <1>0, <4>1 DEF Countable
    <3> QED
      BY <3>2, <3>3, <3>4
  <2> QED
    BY <2>1, <2>2
<1>3. P = SUBSET S
  <2> HIDE DEF P
  <2>1. P \in SUBSET SUBSET S
    BY DEF P
  <2> QED
    BY <1>1, <1>2, <2>1, SubsetInduction DEF Countable
<1>4. S \in P
  BY <1>3
<1> QED
  BY <1>4

\* One more file has at most its own seats more.
LEMMA SumAdded ==
    ASSUME NEW S, Countable(S), NEW x, NEW n \in Nat, x.seats = n
    PROVE  SeatsIn(S \cup {x}) <= SeatsIn(S) + n
<1>1. SeatsIn(S) \in Nat
  BY SumNat
<1>2. CASE x \in S
  <2>1. SeatsIn(S \cup {x}) = SeatsIn(S)
    <3>1. S \cup {x} = S
      BY <1>2
    <3> QED
      BY <3>1
  <2> QED
    BY <1>1, <2>1
<1>3. CASE x \notin S
  <2>1. (S \cup {x}) \ {x} = S
    BY <1>3
  <2>2. Countable(S \cup {x})
    BY FS_AddElement DEF Countable
  <2>3. SeatsIn(S \cup {x}) = x.seats + SeatsIn((S \cup {x}) \ {x})
    BY <2>2, SumTaken
  <2>4. SeatsIn(S \cup {x}) = n + SeatsIn(S)
    BY <2>1, <2>3
  <2> QED
    BY <1>1, <2>4
<1> QED
  BY <1>2, <1>3

-----------------------------------------------------------------------------
(* The counter and the ledgers *)

FilesFor(e) == {f \in eventRes : f.eid = e}

LedgersInv ==
    /\ IsFiniteSet(eventRes)
    /\ \A e \in EIDs : SeatsIn(FilesFor(e)) <= res[e]

LEMMA FilesCountable ==
    ASSUME IInv, LedgersInv, NEW e
    PROVE  Countable(FilesFor(e)) /\ SeatsIn(FilesFor(e)) \in Nat
<1>1. FilesFor(e) \in SUBSET eventRes
  BY DEF FilesFor
<1>2. IsFiniteSet(FilesFor(e))
  BY <1>1, FS_Subset DEF LedgersInv
<1>3. \A f \in eventRes : f.seats \in Nat
  BY Numbers DEF IInv, EventsInv, EventsTypeOK, Reservation
<1> QED
  BY <1>1, <1>2, <1>3, SumNat DEF Countable

\* No file of an event is there before the event is.
LEMMA CreateKeepsLedgers ==
    ASSUME IInv, LedgersInv, CreateStep
    PROVE  LedgersInv'
<1>1. PICK u \in Users, seats \in Attendances, date \in Nat, fname \in FileNames, e \in EIDs :
        Creation(u, seats, date, fname, e)
  BY DEF CreateStep
<1>2. eventRes' = eventRes /\ res' = [res EXCEPT ![e] = 0]
  BY <1>1 DEF Creation, CreateEvent
<1>3. e \notin Existing
  BY <1>1, NextEidIsFree DEF Creation, IInv, EventsInv
<1>4. FilesFor(e) = {}
  BY <1>3 DEF FilesFor, IInv, EventsInv, SalesStopAtStart
<1>5. \A x \in EIDs : FilesFor(x)' = FilesFor(x)
  BY <1>2 DEF FilesFor
<1>6. res \in [EIDs -> Nat]
  BY DEF IInv, EventsInv, EventsTypeOK
<1>7. SeatsIn(FilesFor(e)) = 0
  BY <1>4, SumOfNone
<1>8. ASSUME NEW x \in EIDs
      PROVE  SeatsIn(FilesFor(x)') <= res'[x]
  <2>1. CASE x = e
    BY <1>2, <1>5, <1>6, <1>7, <2>1
  <2>2. CASE x # e
    BY <1>2, <1>5, <1>6, <2>2 DEF LedgersInv
  <2> QED
    BY <2>1, <2>2
<1> QED
  BY <1>2, <1>8 DEF LedgersInv

\* A sale adds one file, or puts it in place of one with its name, and counts it.
LEMMA SaleKeepsLedgers ==
    ASSUME IInv, LedgersInv, SaleStep
    PROVE  LedgersInv'
<1>1. PICK u \in loggedIn, e \in Existing, people \in Bookings : Sale(u, e, people)
  BY DEF SaleStep
<1> DEFINE r == [eid |-> e, uid |-> u, at |-> now, seats |-> people]
<1>2. eventRes' \subseteq eventRes \cup {r} /\ res' = [res EXCEPT ![e] = @ + people]
  BY <1>1 DEF Sale, CreateReservation, WriteReservation
<1>3. res \in [EIDs -> Nat] /\ e \in EIDs /\ people \in Nat
  BY Numbers DEF IInv, EventsInv, EventsTypeOK, Existing
<1>4. r.eid = e /\ r.seats = people
  OBVIOUS
<1> HIDE DEF r
<1>5. IsFiniteSet(eventRes')
  <2>1. IsFiniteSet(eventRes \cup {r})
    BY FS_AddElement DEF LedgersInv
  <2> QED
    BY <1>2, <2>1, FS_Subset
<1>6. ASSUME NEW x \in EIDs
      PROVE  SeatsIn(FilesFor(x)') <= res'[x]
  <2>1. /\ Countable(FilesFor(x)) /\ SeatsIn(FilesFor(x)) \in Nat
        /\ SeatsIn(FilesFor(x)) <= res[x] /\ res[x] \in Nat
    BY <1>3, FilesCountable DEF LedgersInv
  <2>2. CASE x # e
    <3>1. FilesFor(x)' \in SUBSET FilesFor(x)
      BY <1>2, <1>4, <2>2 DEF FilesFor
    <3>2. Countable(FilesFor(x)')
      BY <2>1, <3>1, FS_Subset DEF Countable
    <3>3. SeatsIn(FilesFor(x)') <= SeatsIn(FilesFor(x)) /\ SeatsIn(FilesFor(x)') \in Nat
      BY <2>1, <3>1, <3>2, SumMonotonic, SumNat
    <3>4. res'[x] = res[x]
      BY <1>2, <1>3, <2>2
    <3> QED
      BY <2>1, <3>3, <3>4
  <2>3. CASE x = e
    <3> DEFINE files == FilesFor(x) \cup {r}
    <3>1. FilesFor(x)' \in SUBSET files
      BY <1>2, <1>4, <2>3 DEF FilesFor
    <3>2. Countable(files)
      BY <1>3, <1>4, <2>1, FS_AddElement DEF Countable
    <3>3. Countable(FilesFor(x)')
      BY <3>1, <3>2, FS_Subset DEF Countable
    <3>4. SeatsIn(files) <= SeatsIn(FilesFor(x)) + people
      BY <1>3, <1>4, <2>1, SumAdded
    <3>5. SeatsIn(FilesFor(x)') <= SeatsIn(files)
      BY <3>1, <3>2, SumMonotonic
    <3>6. SeatsIn(files) \in Nat /\ SeatsIn(FilesFor(x)') \in Nat
      BY <3>2, <3>3, SumNat
    <3>7. res'[x] = res[x] + people
      BY <1>2, <1>3, <2>3
    <3> HIDE DEF files
    <3> QED
      BY <1>3, <2>1, <3>4, <3>5, <3>6, <3>7
  <2> QED
    BY <2>2, <2>3
<1> QED
  BY <1>5, <1>6 DEF LedgersInv

LEMMA StepLedgers ==
    ASSUME IInv, LedgersInv, [Next]_vars
    PROVE  LedgersInv'
<1>1. CASE CloseStep \/ AccountStep \/ TickStep
  <2>1. eventRes' = eventRes /\ res' = res
    BY <1>1 DEF CloseStep, AccountStep, TickStep, eventFiles
  <2> QED
    BY <2>1 DEF LedgersInv, FilesFor
<1> QED
  BY <1>1, CreateKeepsLedgers, SaleKeepsLedgers, NextCases DEF IInv

LEMMA LedgersInvSafe == Spec => []LedgersInv
<1>1. ASSUME Init
      PROVE  LedgersInv
  <2>1. eventRes = {} /\ res = [e \in EIDs |-> 0]
    BY <1>1 DEF Init, EventsInit
  <2>2. \A e \in EIDs : FilesFor(e) = {} /\ res[e] = 0
    BY <2>1 DEF FilesFor
  <2> QED
    BY <2>1, <2>2, SumOfNone, FS_EmptySet DEF LedgersInv
<1>2. IInv /\ LedgersInv /\ [Next]_vars => LedgersInv'
  BY StepLedgers
<1> QED
  BY <1>1, <1>2, InductiveInvariant, PTL DEF Spec

\* The reservation files of an event hold no more seats than RES counts, whoever
\* books, and however many bookings replace each other's file within a second
\* (event_database.c, create_reservation).
THEOREM LedgersWithinCounterSafe == Spec => []LedgersWithinCounter
<1>1. IInv /\ LedgersInv => LedgersWithinCounter
  BY DEF IInv, EventsInv, LedgersInv, FilesFor, LedgersWithinCounter
<1> QED
  BY <1>1, InductiveInvariant, LedgersInvSafe, PTL

-----------------------------------------------------------------------------
(* What a REJ tells *)

\* REJ comes from the one place where the seats left have just been counted.
LEMMA ReserveTells ==
    ASSUME IInv, LedgersInv, NEW u \in Users, NEW p \in Passwords, NEW e \in EidInputs,
           NEW people \in PeopleInputs, HandleReserveSeats(u, p, e, people)
    PROVE  RejectTellsSeatsLeft'
<1> SUFFICES ASSUME reply'.status = "REJ", NEW answer \in reply'.data
             PROVE  /\ reply'.eid = e
                    /\ answer[1] >= 1
                    /\ EventState(ended, e)' = 1
                    /\ SeatsIn(FilesFor(e)') + answer[1] <= start'[e].seats
  <2>1. reply'.eid = e
    BY DEF HandleReserveSeats, ReserveAnswered, AnswerStatus, Answer
  <2> QED
    BY <2>1 DEF RejectTellsSeatsLeft, FilesFor, EventState, AvailableSeats, EventTimestamp
<1>1. ReserveRefusal(u, p, e, people) = "none"
  BY DEF HandleReserveSeats, AnswerStatus, Answer, ReserveRefusal
<1>2. e \in Existing /\ ReserveAnswered(u, e, people) /\ now' = now
  BY <1>1 DEF ReserveRefusal, HandleReserveSeats
<1>3. ReserveOutcome(e, people) = "REJ" /\ reply'.eid = e
  BY <1>2 DEF ReserveAnswered, Answer
<1>4. EventState(AutoClosed({e}), e) = 1
  <2>1. EventState(AutoClosed({e}), e) \in 0..3
    BY DEF EventState
  <2> QED
    BY <1>3, <2>1 DEF ReserveOutcome
<1>5. UNCHANGED <<start, res, eventRes>> /\ ended' = AutoClosed({e})
  BY <1>2, <1>3 DEF ReserveAnswered
<1>6. answer = <<AvailableSeats(e)>>
  BY <1>2, <1>3 DEF ReserveAnswered, Answer
<1>7. res[e] < start[e].seats
  BY <1>2, <1>4, ActiveMeans DEF IInv
<1>8. res[e] \in Nat /\ start[e].seats \in Nat /\ e \in EIDs
  BY <1>2, StartFile DEF IInv, EventsInv
<1>9. SeatsIn(FilesFor(e)) <= res[e] /\ SeatsIn(FilesFor(e)) \in Nat
  BY <1>8, FilesCountable DEF LedgersInv
<1>10. EventState(ended, e)' = 1
  BY <1>2, <1>4, <1>5 DEF EventState, AvailableSeats, EventTimestamp
<1>11. FilesFor(e)' = FilesFor(e) /\ start'[e] = start[e]
  BY <1>5 DEF FilesFor
<1>12. answer[1] = start[e].seats - res[e]
  BY <1>6 DEF AvailableSeats
<1> QED
  BY <1>3, <1>7, <1>8, <1>9, <1>10, <1>11, <1>12

\* No other handler answers REJ.
LEMMA OnlyReserveRejects ==
    ASSUME Next, reply'.rsp = "RRI", reply'.status = "REJ"
    PROVE  \E u \in Users, p \in Passwords, e \in EidInputs, people \in PeopleInputs :
             HandleReserveSeats(u, p, e, people)
<1> USE DEF AnswerStatus, Answer, AnswerMalformed
<1>1. ASSUME NEW u \in Users, NEW p \in Passwords, NEW seats \in SeatInputs,
             NEW date \in DateInputs, HandleCreateEvent(u, p, seats, date)
      PROVE  FALSE
  BY <1>1, CreateAnswer
<1>2. ASSUME NEW u \in Users, NEW p \in Passwords, NEW e \in EidInputs,
             HandleCloseEvent(u, p, e)
      PROVE  FALSE
  BY <1>2 DEF HandleCloseEvent
<1>3. ASSUME NEW u \in Users, NEW p \in Passwords,
             HandleMyEvents(u, p) \/ HandleMyReservations(u, p)
      PROVE  FALSE
  BY <1>3 DEF HandleMyEvents, HandleMyReservations, ReportStates
<1>4. CASE AccountRequest
  BY <1>4 DEF AccountRequest, AccountsNext, HandleLogin, HandleLogout, HandleUnregister,
      HandleChangePassword, MalformedAccountRequest
<1>5. ~HandleListEvents
  BY DEF HandleListEvents, ReportStates
<1>6. ASSUME NEW e \in EidInputs, HandleShowEvent(e)
      PROVE  FALSE
  BY <1>6 DEF HandleShowEvent
<1>7. ASSUME NEW rsp, MalformedRequest(rsp)
      PROVE  FALSE
  BY <1>7 DEF MalformedRequest
<1>8. ~Tick
  BY DEF Tick, NoReply
<1> QED
  BY <1>1, <1>2, <1>3, <1>4, <1>5, <1>6, <1>7, <1>8 DEF Next

\* The number a refused RID carries can be had: it is at least one, the event is
\* active, and no reservation file is for one of these seats (tcp_handlers.c,
\* handle_reserve_seats).
THEOREM RejectTellsSeatsLeftSafe == Spec => []RejectTellsSeatsLeft
<1>1. Init => RejectTellsSeatsLeft
  BY DEF Init, NoReply, RejectTellsSeatsLeft
<1>2. ASSUME IInv, LedgersInv, RejectTellsSeatsLeft, [Next]_vars
      PROVE  RejectTellsSeatsLeft'
  <2>1. CASE UNCHANGED vars
    BY <1>2, <2>1 DEF vars, eventFiles, RejectTellsSeatsLeft, EventState, AvailableSeats,
        EventTimestamp
  <2>2. CASE Next /\ reply'.rsp = "RRI" /\ reply'.status = "REJ"
    BY <1>2, <2>2, OnlyReserveRejects, ReserveTells
  <2>3. CASE ~(reply'.rsp = "RRI" /\ reply'.status = "REJ")
    BY <2>3 DEF RejectTellsSeatsLeft
  <2> QED
    BY <1>2, <2>1, <2>2, <2>3
<1> QED
  BY <1>1, <1>2, InductiveInvariant, LedgersInvSafe, PTL DEF Spec

-----------------------------------------------------------------------------
(* The first files in the order of their names *)

\* Files whose names can be put in order: no two have the same name.
Named(F) ==
    /\ IsFiniteSet(F)
    /\ \A f \in F : f.eid \in Int /\ f.at \in Int
    /\ \A f, g \in F : f.eid = g.eid /\ f.at = g.at => f = g

Ahead(F, f) == {g \in F : Before(g, f)}

Rank(F, f) == Cardinality(Ahead(F, f))

First(F) == {f \in F : Rank(F, f) < MaxQuery}

LEMMA RankIs ==
    ASSUME NEW F, Named(F), NEW f \in F
    PROVE  /\ Ahead(F, f) \in SUBSET F /\ IsFiniteSet(Ahead(F, f))
           /\ Rank(F, f) \in Nat /\ Rank(F, f) < Cardinality(F)
<1>1. f \notin Ahead(F, f)
  BY DEF Ahead, Before, Named
<1>2. Ahead(F, f) \in SUBSET F
  BY DEF Ahead
<1>3. IsFiniteSet(Ahead(F, f)) /\ Cardinality(Ahead(F, f)) \in Nat
  BY <1>2, FS_Subset, FS_CardinalityType DEF Named
<1>4. Cardinality(F) \in Nat
  BY FS_CardinalityType DEF Named
<1>5. Cardinality(Ahead(F, f)) <= Cardinality(F) /\ Cardinality(Ahead(F, f)) # Cardinality(F)
  BY <1>1, <1>2, FS_Subset DEF Named
<1> QED
  BY <1>2, <1>3, <1>4, <1>5 DEF Rank

LEMMA RankOrders ==
    ASSUME NEW F, Named(F), NEW f \in F, NEW g \in F, f # g
    PROVE  /\ Before(f, g) \/ Before(g, f)
           /\ Before(f, g) => Rank(F, f) < Rank(F, g)
<1>1. Before(f, g) \/ Before(g, f)
  BY DEF Named, Before
<1>2. ASSUME Before(f, g)
      PROVE  Rank(F, f) < Rank(F, g)
  <2>1. f \in Ahead(F, g) /\ f \notin Ahead(F, f)
    BY <1>2 DEF Ahead, Before, Named
  <2>2. Ahead(F, f) \in SUBSET Ahead(F, g)
    BY <1>2 DEF Ahead, Before, Named
  <2>3. /\ Cardinality(Ahead(F, f)) <= Cardinality(Ahead(F, g))
        /\ Cardinality(Ahead(F, f)) # Cardinality(Ahead(F, g))
    BY <2>1, <2>2, RankIs, FS_Subset
  <2>4. Rank(F, f) \in Nat /\ Rank(F, g) \in Nat
    BY RankIs
  <2> QED
    BY <2>3, <2>4 DEF Rank
<1> QED
  BY <1>1, <1>2

\* As many of the files as there are, up to MaxQuery, and those with the first names.
LEMMA FirstAre ==
    ASSUME NEW F, Named(F)
    PROVE  /\ First(F) \in SUBSET F /\ IsFiniteSet(First(F))
           /\ Cardinality(First(F)) =
                 IF Cardinality(F) < MaxQuery THEN Cardinality(F) ELSE MaxQuery
           /\ \A f \in First(F), g \in F \ First(F) : Before(f, g)
<1>1. First(F) \in SUBSET F /\ IsFiniteSet(First(F))
  BY FS_Subset DEF First, Named
<1>2. Cardinality(F) \in Nat /\ Cardinality(First(F)) \in Nat /\ MaxQuery \in Nat \ {0}
  BY <1>1, FS_CardinalityType, BoundsAssumption DEF Named
<1>3. ASSUME NEW f \in First(F), NEW g \in F \ First(F)
      PROVE  Before(f, g)
  <2>1. f \in F /\ f # g /\ Rank(F, f) < MaxQuery /\ ~(Rank(F, g) < MaxQuery)
    BY DEF First
  <2>2. Rank(F, f) \in Nat /\ Rank(F, g) \in Nat
    BY <2>1, RankIs
  <2>3. ~(Rank(F, g) < Rank(F, f))
    BY <1>2, <2>1, <2>2
  <2> QED
    BY <2>1, <2>3, RankOrders
<1>4. ASSUME Cardinality(F) < MaxQuery
      PROVE  First(F) = F
  <2>1. ASSUME NEW f \in F
        PROVE  Rank(F, f) < MaxQuery
    BY <1>2, <1>4, RankIs
  <2> QED
    BY <2>1 DEF First
<1>5. ASSUME ~(Cardinality(F) < MaxQuery)
      PROVE  Cardinality(First(F)) >= MaxQuery
  <2>1. CASE First(F) = F
    BY <1>2, <1>5, <2>1
  <2>2. CASE First(F) # F
    <3> DEFINE N == {Rank(F, f) : f \in F \ First(F)}
    <3>1. N # {} /\ N \subseteq Nat
      BY <1>1, <2>2, RankIs
    <3>2. PICK n \in N : \A m \in N : n <= m
      BY <3>1, LeastNumber
    <3>3. PICK g \in F \ First(F) : n = Rank(F, g)
      OBVIOUS
    <3>4. ASSUME NEW f \in Ahead(F, g)
          PROVE  f \in First(F)
      <4>1. f \in F /\ Before(f, g) /\ f # g
        BY <3>3 DEF Ahead, Before, Named
      <4>2. Rank(F, f) < Rank(F, g) /\ Rank(F, f) \in Nat /\ Rank(F, g) \in Nat
        BY <3>3, <4>1, RankOrders, RankIs
      <4>3. Rank(F, f) \notin N
        BY <3>2, <3>3, <4>2
      <4> QED
        BY <4>1, <4>3
    <3>5. Ahead(F, g) \in SUBSET First(F)
      BY <3>4
    <3>6. Rank(F, g) <= Cardinality(First(F))
      BY <1>1, <3>5, FS_Subset DEF Rank
    <3>7. Rank(F, g) \in Nat /\ ~(Rank(F, g) < MaxQuery)
      BY <3>3, RankIs DEF First
    <3> QED
      BY <1>2, <3>6, <3>7
  <2> QED
    BY <2>1, <2>2
<1>6. Cardinality(First(F)) <= MaxQuery
  <2>1. CASE First(F) = {}
    BY <1>2, <2>1, FS_EmptySet
  <2>2. CASE First(F) # {}
    \* The one with most files ahead has all the others ahead.
    <3> DEFINE N == {MaxQuery - Rank(F, f) : f \in First(F)}
    <3>1. \A f \in First(F) : f \in F /\ Rank(F, f) \in Nat /\ Rank(F, f) < MaxQuery
      BY RankIs DEF First
    <3>2. N # {} /\ N \subseteq Nat
      BY <1>2, <2>2, <3>1
    <3>3. PICK n \in N : \A m \in N : n <= m
      BY <3>2, LeastNumber
    <3>4. PICK f \in First(F) : n = MaxQuery - Rank(F, f)
      OBVIOUS
    <3>5. ASSUME NEW g \in First(F) \ {f}
          PROVE  g \in Ahead(F, f)
      <4>1. MaxQuery - Rank(F, f) <= MaxQuery - Rank(F, g)
        BY <3>3, <3>4
      <4>2. /\ Rank(F, f) \in Nat /\ Rank(F, g) \in Nat
            /\ f \in F /\ g \in F /\ f # g
        BY <3>1, <3>4
      <4>3. ~(Rank(F, f) < Rank(F, g))
        BY <1>2, <4>1, <4>2
      <4> QED
        BY <4>2, <4>3, RankOrders DEF Ahead
    <3>6. First(F) \ {f} \in SUBSET Ahead(F, f)
      BY <3>5
    <3>7. Cardinality(First(F) \ {f}) <= Rank(F, f)
      BY <3>1, <3>4, <3>6, RankIs, FS_Subset DEF Rank
    <3>8. Cardinality(First(F) \ {f}) = Cardinality(First(F)) - 1
      BY <1>1, <3>4, FS_RemoveElement
    <3>9. Rank(F, f) \in Nat /\ Rank(F, f) < MaxQuery
      BY <3>1, <3>4
    <3> QED
      BY <1>2, <3>7, <3>8, <3>9
  <2> QED
    BY <2>1, <2>2
<1> QED
  BY <1>1, <1>2, <1>3, <1>4, <1>5, <1>6

-----------------------------------------------------------------------------
(* What LMR tells *)

\* One booking to a name: WriteReservation puts a file in place of its namesake.
NamesInv ==
    \A f, g \in userRes : f.eid = g.eid /\ f.uid = g.uid /\ f.at = g.at => f = g

LEMMA StepNames ==
    ASSUME IInv, NamesInv, [Next]_vars
    PROVE  NamesInv'
<1>1. CASE SaleStep
  <2>1. PICK u \in loggedIn, e \in Existing, people \in Bookings : Sale(u, e, people)
    BY <1>1 DEF SaleStep
  <2> DEFINE r == [eid |-> e, uid |-> u, at |-> now, seats |-> people]
  <2>2. userRes' = WriteReservation(userRes, r)
    BY <2>1 DEF Sale, CreateReservation
  <2> HIDE DEF r
  <2> QED
    BY <2>2 DEF NamesInv, WriteReservation
<1>2. CASE CreateStep
  BY <1>2 DEF CreateStep, Creation, CreateEvent, NamesInv
<1>3. CASE CloseStep \/ AccountStep \/ TickStep
  BY <1>3 DEF CloseStep, AccountStep, TickStep, eventFiles, NamesInv
<1> QED
  BY <1>1, <1>2, <1>3, NextCases DEF IInv

LEMMA NamesInvSafe == Spec => []NamesInv
<1>1. Init => NamesInv
  BY DEF Init, EventsInit, NamesInv
<1>2. IInv /\ NamesInv /\ [Next]_vars => NamesInv'
  BY StepNames
<1> QED
  BY <1>1, <1>2, InductiveInvariant, PTL DEF Spec

LEMMA FilesNamed ==
    ASSUME IInv, LedgersInv, NamesInv, NEW u
    PROVE  Named(FilesOf(u)) /\ FilesOf(u) \subseteq Reservation
<1>1. userRes \subseteq Reservation /\ IsFiniteSet(userRes)
  BY DEF IInv, EventsInv, EventsTypeOK, LedgersInv
<1>2. FilesOf(u) \in SUBSET userRes
  BY DEF FilesOf
<1>3. IsFiniteSet(FilesOf(u))
  BY <1>1, <1>2, FS_Subset
<1>4. \A f \in Reservation : f.eid \in Int /\ f.at \in Int
  <2>1. \A f \in Reservation : f.eid \in EIDs /\ f.at \in Instants
    BY DEF Reservation
  <2>2. EIDs \subseteq Int /\ Instants \subseteq Int
    BY ClockAssumption DEF EIDs
  <2> QED
    BY <2>1, <2>2
<1>5. \A f, g \in FilesOf(u) : f.eid = g.eid /\ f.at = g.at => f = g
  BY DEF FilesOf, NamesInv
<1> QED
  BY <1>1, <1>2, <1>3, <1>4, <1>5 DEF Named

\* The handler's answer has one entry for each of the first files.
LEMMA QueryTells ==
    ASSUME IInv, LedgersInv, NamesInv, NEW u \in Users, NEW p \in Passwords,
           HandleMyReservations(u, p), reply'.status = "OK"
    PROVE  FirstReservationsTold'
<1> DEFINE F == FilesOf(u)
           entry(f) == <<f.eid, f.at, f.seats>>
           found == {entry(f) : f \in QueriedReservations(u)}
<1>1. reply'.uid = u /\ reply'.data = found /\ userRes' = userRes
  BY DEF HandleMyReservations, QueryRefusal, AnswerStatus, Answer, eventFiles
<1>2. QueriedReservations(u) = First(F)
  BY DEF QueriedReservations, First, Rank, Ahead
<1>3. Named(F) /\ F \subseteq Reservation
  BY FilesNamed
<1>4. \A f, g \in F : entry(f) = entry(g) => f = g
  BY <1>3 DEF Named
<1> DEFINE told == {f \in F : entry(f) \in found}
<1>5. First(F) \in SUBSET F /\ IsFiniteSet(First(F))
  BY <1>3, FirstAre
<1>6. told = First(F)
  <2> HIDE DEF F, entry
  <2> QED
    BY <1>2, <1>4, <1>5
<1>7. Cardinality(found) = Cardinality(told)
  <2> DEFINE G == [f \in First(F) |-> entry(f)]
  <2>1. G \in [First(F) -> found] /\ \A f, g \in First(F) : G[f] = G[g] => f = g
    <3> HIDE DEF F, entry
    <3> QED
      BY <1>2, <1>4, <1>5
  <2>2. \A x \in found : \E f \in First(F) : G[f] = x
    <3> HIDE DEF F, entry
    <3> QED
      BY <1>2
  <2> HIDE DEF G, F, found
  <2>3. ExistsBijection(First(F), found)
    BY <2>1, <2>2, Fun_IsBij, Fun_ExistsBij
  <2> QED
    BY <1>5, <1>6, <2>3, FS_Bijection
<1>8. /\ Cardinality(told) = Cardinality(found)
      /\ Cardinality(told) = IF Cardinality(F) < MaxQuery THEN Cardinality(F) ELSE MaxQuery
      /\ \A f \in told, g \in F \ told : Before(f, g)
  <2> HIDE DEF F, found, told
  <2> QED
    BY <1>3, <1>6, <1>7, FirstAre
<1>9. FilesOf(reply.uid)' = F
  BY <1>1 DEF FilesOf
<1> HIDE DEF F, found
<1> QED
  BY <1>1, <1>8, <1>9 DEF FirstReservationsTold

\* No other handler answers for LMR.
LEMMA OnlyQueryTells ==
    ASSUME Next, reply'.rsp = "RMR", reply'.status = "OK"
    PROVE  \E u \in Users, p \in Passwords : HandleMyReservations(u, p)
<1> USE DEF AnswerStatus, Answer, AnswerMalformed
<1>1. ASSUME NEW u \in Users, NEW p \in Passwords, NEW seats \in SeatInputs,
             NEW date \in DateInputs, HandleCreateEvent(u, p, seats, date)
      PROVE  FALSE
  BY <1>1, CreateAnswer
<1>2. ASSUME NEW u \in Users, NEW p \in Passwords, NEW e \in EidInputs,
             HandleCloseEvent(u, p, e)
      PROVE  FALSE
  BY <1>2 DEF HandleCloseEvent
<1>3. ASSUME NEW u \in Users, NEW p \in Passwords, NEW e \in EidInputs,
             NEW people \in PeopleInputs, HandleReserveSeats(u, p, e, people)
      PROVE  FALSE
  BY <1>3 DEF HandleReserveSeats, ReserveAnswered
<1>4. ASSUME NEW u \in Users, NEW p \in Passwords, HandleMyEvents(u, p)
      PROVE  FALSE
  BY <1>4 DEF HandleMyEvents, ReportStates
<1>5. CASE AccountRequest
  BY <1>5 DEF AccountRequest, AccountsNext, HandleLogin, HandleLogout, HandleUnregister,
      HandleChangePassword, MalformedAccountRequest
<1>6. ~HandleListEvents
  BY DEF HandleListEvents, ReportStates
<1>7. ASSUME NEW e \in EidInputs, HandleShowEvent(e)
      PROVE  FALSE
  BY <1>7 DEF HandleShowEvent
<1>8. ASSUME NEW rsp, MalformedRequest(rsp)
      PROVE  FALSE
  BY <1>8 DEF MalformedRequest
<1>9. ~Tick
  BY DEF Tick, NoReply
<1> QED
  BY <1>1, <1>2, <1>3, <1>4, <1>5, <1>6, <1>7, <1>8, <1>9 DEF Next

\* Whatever has been booked, and for any MaxQuery, the answer of LMR is complete up to
\* the size of its array and takes the first names when it is full
\* (udp_handlers.c, handle_my_reservations).
THEOREM FirstReservationsToldSafe == Spec => []FirstReservationsTold
<1>1. Init => FirstReservationsTold
  BY DEF Init, NoReply, FirstReservationsTold
<1>2. ASSUME IInv, LedgersInv, NamesInv, FirstReservationsTold, [Next]_vars
      PROVE  FirstReservationsTold'
  <2>1. CASE UNCHANGED vars
    BY <1>2, <2>1 DEF vars, eventFiles, FirstReservationsTold, FilesOf
  <2>2. CASE Next /\ reply'.rsp = "RMR" /\ reply'.status = "OK"
    BY <1>2, <2>2, OnlyQueryTells, QueryTells
  <2>3. CASE ~(reply'.rsp = "RMR" /\ reply'.status = "OK")
    BY <2>3 DEF FirstReservationsTold
  <2> QED
    BY <1>2, <2>1, <2>2, <2>3
<1> QED
  BY <1>1, <1>2, InductiveInvariant, LedgersInvSafe, NamesInvSafe, PTL DEF Spec

\* The claim that the latest booking is among the answers is true of a user with at most
\* MaxQuery files, which are all told: it takes one more to lose it (udp_handlers.c:414).
THEOREM LatestReservationListedUpToLimit ==
    Spec => []((\A u \in Users : Cardinality(FilesOf(u)) <= MaxQuery)
                 => LatestReservationListed)
<1>1. ASSUME IInv, LedgersInv, NamesInv, FirstReservationsTold,
             \A u \in Users : Cardinality(FilesOf(u)) <= MaxQuery
      PROVE  LatestReservationListed
  <2> SUFFICES ASSUME reply.rsp = "RMR", reply.status = "OK", NEW f \in FilesOf(reply.uid)
               PROVE  <<f.eid, f.at, f.seats>> \in reply.data
    BY DEF LatestReservationListed
  <2> DEFINE files == FilesOf(reply.uid)
             told == {g \in files : <<g.eid, g.at, g.seats>> \in reply.data}
  <2>1. reply.uid \in Users
    BY <1>1 DEF FilesOf, IInv, EventsInv, EventsTypeOK, Reservation
  <2>2. Cardinality(files) <= MaxQuery
    BY <1>1, <2>1
  <2>3. IsFiniteSet(files) /\ told \in SUBSET files
    BY <1>1, FilesNamed DEF Named
  <2>4. Cardinality(files) \in Nat /\ MaxQuery \in Nat
    BY <2>3, FS_CardinalityType, BoundsAssumption
  <2>5. Cardinality(told) = IF Cardinality(files) < MaxQuery THEN Cardinality(files) ELSE MaxQuery
    BY <1>1 DEF FirstReservationsTold
  <2>6. Cardinality(told) = Cardinality(files)
    <3> HIDE DEF told, files
    <3> QED
      BY <2>2, <2>4, <2>5
  <2>7. told = files
    <3> HIDE DEF told, files
    <3> QED
      BY <2>3, <2>6, FS_Subset
  <2> QED
    BY <2>7
<1> QED
  BY <1>1, FirstReservationsToldSafe, InductiveInvariant, LedgersInvSafe, NamesInvSafe, PTL
=============================================================================
