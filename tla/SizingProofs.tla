---------------------------- MODULE SizingProofs ----------------------------
(***************************************************************************)
(* Proofs about the choice of an instance type: for every catalog or every *)
(* amount where the runs check a finite number of them.                    *)
(***************************************************************************)
EXTENDS Server, TLAPS, WellFoundedInduction

UnitNames == {"Ki", "Mi", "Gi", "Ti", "Pi", "Ei", "k", "K", "M", "G", "T", "P", "E", "none"}
Units == UnitNames \cup {"m"}
Quantities == {Empty, Junk} \cup {Number(n, d, u) : n \in Int, d \in Nat \ {0}, u \in Units}

\* The texts of a request, whatever they say.
Request == [cpuRequest : Quantities, cpuLimit : Quantities,
            memoryRequest : Quantities, memoryLimit : Quantities]

\* A catalog, whatever it offers.
IsCatalog(types) == \A t \in types : t.vcpus \in Nat /\ t.mib \in Nat

-----------------------------------------------------------------------------
(* Rounding up.                                                             *)

\* The least whole number that is not below n / d, and nothing else is.
LEMMA RoundUpIsCeiling ==
    ASSUME NEW n \in Int, NEW d \in Nat \ {0}
    PROVE  /\ RoundUp(n, d) \in Int
           /\ \A c \in Int : c = RoundUp(n, d) <=> d * c >= n /\ d * c < n + d
  <1> DEFINE x == n + d - 1
             q == x \div d
  <1>1. x \in Int /\ q \in Int /\ RoundUp(n, d) = q
    BY DEF RoundUp
  <1>2. d * q <= x /\ x < d * q + d
    BY <1>1
  <1>3. ASSUME NEW c \in Int, d * c >= n, d * c < n + d
        PROVE  c = q
    <2>1. d * c <= x /\ x < d * c + d
      BY <1>3
    <2>2. ~(c < q)
      <3>1. SUFFICES ASSUME c + 1 <= q PROVE FALSE
        BY <1>1
      <3>2. d * (c + 1) <= d * q
        BY <1>1, <3>1
      <3>3. d * (c + 1) = d * c + d
        OBVIOUS
      <3> QED
        BY <1>1, <1>2, <2>1, <3>2, <3>3
    <2>3. ~(q < c)
      <3>1. SUFFICES ASSUME q + 1 <= c PROVE FALSE
        BY <1>1
      <3>2. d * (q + 1) <= d * c
        BY <1>1, <3>1
      <3>3. d * (q + 1) = d * q + d
        BY <1>1
      <3> QED
        BY <1>1, <1>2, <2>1, <3>2, <3>3
    <2> QED
      BY <1>1, <2>2, <2>3
  <1>4. d * q >= n /\ d * q < n + d
    BY <1>1, <1>2
  <1> HIDE DEF q, x
  <1> QED
    BY <1>1, <1>3, <1>4

\* The amount of a fraction does not depend on how the fraction is written.
LEMMA RoundUpOfFraction ==
    ASSUME NEW n \in Int, NEW d \in Nat \ {0}, NEW m \in Int, NEW e \in Nat \ {0}, n * e = m * d
    PROVE  RoundUp(n, d) = RoundUp(m, e)
  <1>1. PICK c \in Int : c = RoundUp(n, d)
    BY RoundUpIsCeiling
  <1>2. d * c >= n /\ d * c < n + d
    BY <1>1, RoundUpIsCeiling
  <1>3. e * c >= m
    <2>1. SUFFICES ASSUME e * c < m PROVE FALSE
      OBVIOUS
    <2>2. (e * c) * d < m * d
      BY <2>1
    <2>3. (d * c) * e >= n * e
      BY <1>2
    <2>4. (e * c) * d = (d * c) * e
      OBVIOUS
    <2> QED
      BY <2>2, <2>3, <2>4
  <1>4. e * c < m + e
    <2>1. SUFFICES ASSUME e * c >= m + e PROVE FALSE
      OBVIOUS
    <2>2. (e * c) * d >= (m + e) * d
      BY <2>1
    <2>3. (d * c) * e < (n + d) * e
      BY <1>2
    <2>4. (e * c) * d = (d * c) * e /\ (m + e) * d = m * d + e * d /\ (n + d) * e = n * e + e * d
      OBVIOUS
    <2> QED
      BY <2>2, <2>3, <2>4
  <1> QED
    BY <1>1, <1>3, <1>4, RoundUpIsCeiling

-----------------------------------------------------------------------------
(* What a quantity amounts to.                                              *)

\* The table of units, entry by entry.
IsWorth(u, n, d) == MiB(u)[1] = n /\ MiB(u)[2] = d

LEMMA MiBTable ==
    /\ IsWorth("Ki", 1, 1024)
    /\ IsWorth("Mi", 1, 1)
    /\ IsWorth("Gi", 1024, 1)
    /\ IsWorth("Ti", 1048576, 1)
    /\ IsWorth("k", 125, 131072)
    /\ IsWorth("K", 125, 131072)
    /\ IsWorth("M", 15625, 16384)
    /\ IsWorth("G", 1953125, 2048)
    /\ IsWorth("T", 244140625, 256)
    /\ IsWorth("none", 1, 1048576)
    /\ IsWorth("Pi", 1073741824, 1)
    /\ IsWorth("Ei", 1048576 * 1048576, 1)
    /\ IsWorth("P", 78125 * 390625, 32)
    /\ IsWorth("E", 1953125 * 1953125, 4)
  <1>1. IsWorth("Ki", 1, 1024)
    BY SMT DEF MiB, IsWorth
  <1>2. IsWorth("Mi", 1, 1)
    BY SMT DEF MiB, IsWorth
  <1>3. IsWorth("Gi", 1024, 1)
    BY SMT DEF MiB, IsWorth
  <1>4. IsWorth("Ti", 1048576, 1)
    BY SMT DEF MiB, IsWorth
  <1>5. IsWorth("k", 125, 131072)
    BY SMT DEF MiB, IsWorth
  <1>6. IsWorth("K", 125, 131072)
    BY SMT DEF MiB, IsWorth
  <1>7. IsWorth("M", 15625, 16384)
    BY SMT DEF MiB, IsWorth
  <1>8. IsWorth("G", 1953125, 2048)
    BY SMT DEF MiB, IsWorth
  <1>9. IsWorth("T", 244140625, 256)
    BY SMT DEF MiB, IsWorth
  <1>10. IsWorth("none", 1, 1048576)
    BY SMT DEF MiB, IsWorth
  <1>11. IsWorth("Pi", 1073741824, 1)
    BY SMT DEF MiB, IsWorth
  <1>12. IsWorth("Ei", 1048576 * 1048576, 1)
    BY SMT DEF MiB, IsWorth
  <1>13. IsWorth("P", 78125 * 390625, 32)
    BY SMT DEF MiB, IsWorth
  <1>14. IsWorth("E", 1953125 * 1953125, 4)
    BY SMT DEF MiB, IsWorth
  <1> QED
    BY <1>1, <1>2, <1>3, <1>4, <1>5, <1>6, <1>7, <1>8, <1>9, <1>10,
       <1>11, <1>12, <1>13, <1>14, SMT

\* A unit is a positive fraction of a MiB.
LEMMA UnitsArePositive ==
    ASSUME NEW u \in UnitNames
    PROVE  MiB(u)[1] \in Nat \ {0} /\ MiB(u)[2] \in Nat \ {0}
  BY MiBTable, SMT DEF UnitNames, IsWorth

LEMMA ParsesAreNumbers ==
    ASSUME NEW q \in Quantities
    PROVE  ParseCPU(q) \in Int /\ ParseMemory(q) \in Int
  <1>1. CASE q \in {Empty, Junk}
    BY <1>1 DEF Empty, Junk, ParseCPU, ParseMemory, Unreadable
  <1>2. ASSUME NEW n \in Int, NEW d \in Nat \ {0}, NEW u \in Units, q = Number(n, d, u)
        PROVE  ParseCPU(q) \in Int /\ ParseMemory(q) \in Int
    <2>1. q.is = "number" /\ q.num = n /\ q.den = d /\ q.unit = u
      BY <1>2 DEF Number
    <2>2. ParseCPU(q) \in Int
      <3>1. n * (IF u = "m" THEN 10 ELSE 10000) \in Int
        OBVIOUS
      <3>2. RoundUp(n * (IF u = "m" THEN 10 ELSE 10000), d) \in Int
        BY <3>1, RoundUpIsCeiling
      <3> QED
        BY <2>1, <3>2 DEF ParseCPU, Unreadable
    <2>3. u \in UnitNames => RoundUp(n * MiB(u)[1], d * MiB(u)[2]) \in Int
      <3>1. SUFFICES ASSUME u \in UnitNames PROVE RoundUp(n * MiB(u)[1], d * MiB(u)[2]) \in Int
        OBVIOUS
      <3>2. PICK k \in Nat \ {0}, l \in Nat \ {0} : MiB(u)[1] = k /\ MiB(u)[2] = l
        BY <3>1, UnitsArePositive
      <3>3. n * k \in Int /\ d * l \in Nat \ {0}
        OBVIOUS
      <3> QED
        BY <3>2, <3>3, RoundUpIsCeiling
    <2>4. ParseMemory(q) \in Int
      BY <2>1, <2>3, SMT DEF ParseMemory, Unreadable, Units
    <2> QED
      BY <2>2, <2>4
  <1> QED
    BY <1>1, <1>2 DEF Quantities

LEMMA MemoryOf ==
    ASSUME NEW n \in Nat, NEW d \in Nat \ {0}, NEW u \in UnitNames, NEW k, NEW l, IsWorth(u, k, l)
    PROVE  ParseMemory(Number(n, d, u)) = RoundUp(n * k, d * l)
  <1> DEFINE q == Number(n, d, u)
  <1>1. q.is = "number" /\ q.num = n /\ q.den = d /\ q.unit = u
    BY DEF Number
  <1>2. u # "m"
    BY SMT DEF UnitNames
  <1>3. ~(q.num < 0)
    BY <1>1
  <1> HIDE DEF q
  <1>4. ParseMemory(q) = RoundUp(n * MiB(u)[1], d * MiB(u)[2])
    BY <1>1, <1>2, <1>3, Zenon DEF ParseMemory
  <1> QED
    BY <1>4 DEF IsWorth, q

\* A number of CPUs is a thousand times as many of a thousandth.
LEMMA SpellingOfCPU ==
    ASSUME NEW n \in Nat, NEW d \in Nat \ {0}, NEW m \in Nat, NEW e \in Nat \ {0},
           n * e = 1000 * (m * d)
    PROVE  ParseCPU(Number(n, d, "m")) = ParseCPU(Number(m, e, "none"))
  <1>1. RoundUp(n * 10, d) = RoundUp(m * 10000, e)
    <2>1. (n * 10) * e = (m * 10000) * d
      OBVIOUS
    <2> QED
      BY <2>1, RoundUpOfFraction
  <1> QED
    BY <1>1 DEF ParseCPU, Number

\* So for the spellings of the runs.
LEMMA SpellingsAgree == SpellingIsIrrelevant
  <1>1. ASSUME NEW pair \in CPUSpellings PROVE ParseCPU(pair[1]) = ParseCPU(pair[2])
    BY SpellingOfCPU, SMT DEF CPUSpellings
  <1>2. ASSUME NEW pair \in MemorySpellings PROVE ParseMemory(pair[1]) = ParseMemory(pair[2])
    <2> DEFINE Agree(p, q) == ParseMemory(p) = ParseMemory(q)
    <2>1. Agree(Number(1, 1, "Ki"), Number(1024, 1, "none"))
      <3>1. ParseMemory(Number(1, 1, "Ki")) = RoundUp(1 * 1, 1 * 1024)
        BY MiBTable, MemoryOf, SMT DEF UnitNames
      <3>2. ParseMemory(Number(1024, 1, "none")) = RoundUp(1024 * 1, 1 * 1048576)
        BY MiBTable, MemoryOf, SMT DEF UnitNames
      <3> QED
        BY <3>1, <3>2, SMT DEF RoundUp, Agree
    <2>2. Agree(Number(2048, 1, "Ki"), Number(2, 1, "Mi"))
      <3>1. ParseMemory(Number(2048, 1, "Ki")) = RoundUp(2048 * 1, 1 * 1024)
        BY MiBTable, MemoryOf, SMT DEF UnitNames
      <3>2. ParseMemory(Number(2, 1, "Mi")) = RoundUp(2 * 1, 1 * 1)
        BY MiBTable, MemoryOf, SMT DEF UnitNames
      <3> QED
        BY <3>1, <3>2, SMT DEF RoundUp, Agree
    <2>3. Agree(Number(8, 1, "Gi"), Number(8192, 1, "Mi"))
      <3>1. ParseMemory(Number(8, 1, "Gi")) = RoundUp(8 * 1024, 1 * 1)
        BY MiBTable, MemoryOf, SMT DEF UnitNames
      <3>2. ParseMemory(Number(8192, 1, "Mi")) = RoundUp(8192 * 1, 1 * 1)
        BY MiBTable, MemoryOf, SMT DEF UnitNames
      <3> QED
        BY <3>1, <3>2, SMT DEF RoundUp, Agree
    <2>4. Agree(Number(1, 1, "Ti"), Number(1024, 1, "Gi"))
      <3>1. ParseMemory(Number(1, 1, "Ti")) = RoundUp(1 * 1048576, 1 * 1)
        BY MiBTable, MemoryOf, SMT DEF UnitNames
      <3>2. ParseMemory(Number(1024, 1, "Gi")) = RoundUp(1024 * 1024, 1 * 1)
        BY MiBTable, MemoryOf, SMT DEF UnitNames
      <3> QED
        BY <3>1, <3>2, SMT DEF RoundUp, Agree
    <2>5. Agree(Number(3, 2, "Gi"), Number(1536, 1, "Mi"))
      <3>1. ParseMemory(Number(3, 2, "Gi")) = RoundUp(3 * 1024, 2 * 1)
        BY MiBTable, MemoryOf, SMT DEF UnitNames
      <3>2. ParseMemory(Number(1536, 1, "Mi")) = RoundUp(1536 * 1, 1 * 1)
        BY MiBTable, MemoryOf, SMT DEF UnitNames
      <3> QED
        BY <3>1, <3>2, SMT DEF RoundUp, Agree
    <2>6. Agree(Number(1, 1, "k"), Number(1000, 1, "none"))
      <3>1. ParseMemory(Number(1, 1, "k")) = RoundUp(1 * 125, 1 * 131072)
        BY MiBTable, MemoryOf, SMT DEF UnitNames
      <3>2. ParseMemory(Number(1000, 1, "none")) = RoundUp(1000 * 1, 1 * 1048576)
        BY MiBTable, MemoryOf, SMT DEF UnitNames
      <3> QED
        BY <3>1, <3>2, SMT DEF RoundUp, Agree
    <2>7. Agree(Number(1, 1, "M"), Number(1000, 1, "K"))
      <3>1. ParseMemory(Number(1, 1, "M")) = RoundUp(1 * 15625, 1 * 16384)
        BY MiBTable, MemoryOf, SMT DEF UnitNames
      <3>2. ParseMemory(Number(1000, 1, "K")) = RoundUp(1000 * 125, 1 * 131072)
        BY MiBTable, MemoryOf, SMT DEF UnitNames
      <3> QED
        BY <3>1, <3>2, SMT DEF RoundUp, Agree
    <2>8. Agree(Number(4, 1, "G"), Number(4000, 1, "M"))
      <3>1. ParseMemory(Number(4, 1, "G")) = RoundUp(4 * 1953125, 1 * 2048)
        BY MiBTable, MemoryOf, SMT DEF UnitNames
      <3>2. ParseMemory(Number(4000, 1, "M")) = RoundUp(4000 * 15625, 1 * 16384)
        BY MiBTable, MemoryOf, SMT DEF UnitNames
      <3> QED
        BY <3>1, <3>2, SMT DEF RoundUp, Agree
    <2>9. Agree(Number(1, 1, "T"), Number(1000, 1, "G"))
      <3>1. ParseMemory(Number(1, 1, "T")) = RoundUp(1 * 244140625, 1 * 256)
        BY MiBTable, MemoryOf, SMT DEF UnitNames
      <3>2. ParseMemory(Number(1000, 1, "G")) = RoundUp(1000 * 1953125, 1 * 2048)
        BY MiBTable, MemoryOf, SMT DEF UnitNames
      <3> QED
        BY <3>1, <3>2, SMT DEF RoundUp, Agree
    <2>10. Agree(Number(1, 1024, "Pi"), Number(1, 1, "Ti"))
      <3>1. ParseMemory(Number(1, 1024, "Pi")) = RoundUp(1 * 1073741824, 1024 * 1)
        BY MiBTable, MemoryOf, SMT DEF UnitNames
      <3>2. ParseMemory(Number(1, 1, "Ti")) = RoundUp(1 * 1048576, 1 * 1)
        BY MiBTable, MemoryOf, SMT DEF UnitNames
      <3> QED
        BY <3>1, <3>2, SMT DEF RoundUp, Agree
    <2> HIDE DEF Agree
    <2>11. Agree(pair[1], pair[2])
      BY <2>1, <2>2, <2>3, <2>4, <2>5, <2>6, <2>7, <2>8, <2>9, <2>10, SMT DEF MemorySpellings
    <2> QED
      BY <2>11 DEF Agree
  <1> QED
    BY <1>1, <1>2 DEF SpellingIsIrrelevant

-----------------------------------------------------------------------------
(* What is selected.                                                        *)

\* A nonempty set of naturals has a least element.
LEMMA LeastNatural ==
    ASSUME NEW T, T \subseteq Nat, T # {}
    PROVE  \E x \in T : \A y \in T : x <= y
  <1>1. PICK x \in T : \A y \in T : ~ (<<y, x>> \in OpToRel(<, Nat))
    BY WFMin, NatLessThanWellFounded, Zenon
  <1>2. \A y \in T : ~(y < x)
    BY <1>1, Zenon DEF OpToRel
  <1> QED
    BY <1>2

\* The search returns a type if and only if one holds the amounts, and every
\* type it may return does.
LEMMA FirstFitsAreFits ==
    ASSUME NEW types, IsCatalog(types), NEW cpu \in Int, NEW mib \in Int
    PROVE  /\ \A t \in FirstFits(types, cpu, mib) : t \in types /\ Holds(t, cpu, mib)
           /\ (\E t \in types : Holds(t, cpu, mib)) => FirstFits(types, cpu, mib) # {}
  <1> DEFINE fits == {t \in types : Holds(t, cpu, mib)}
  <1>1. \A t \in FirstFits(types, cpu, mib) : t \in types /\ Holds(t, cpu, mib)
    BY DEF FirstFits
  <1>2. ASSUME fits # {}
        PROVE  \E t \in fits : \A u \in fits : ~Before(u, t)
    <2>0. \A t \in fits : t.vcpus \in Nat /\ t.mib \in Nat
      BY DEF IsCatalog
    <2> HIDE DEF fits
    <2>1. PICK n \in {t.vcpus : t \in fits} : \A m \in {t.vcpus : t \in fits} : n <= m
      <3> DEFINE counts == {t.vcpus : t \in fits}
      <3>1. counts \subseteq Nat /\ counts # {}
        BY <1>2, <2>0
      <3> HIDE DEF counts
      <3>2. \E n \in counts : \A m \in counts : n <= m
        BY <3>1, LeastNatural, Zenon
      <3> QED
        BY <3>2, Zenon DEF counts
    <2> DEFINE smallest == {t \in fits : t.vcpus = n}
    <2>2. PICK k \in {t.mib : t \in smallest} : \A l \in {t.mib : t \in smallest} : k <= l
      <3> DEFINE sizes == {t.mib : t \in smallest}
      <3>1. sizes \subseteq Nat /\ sizes # {}
        BY <2>0, <2>1
      <3> HIDE DEF sizes
      <3>2. \E k \in sizes : \A l \in sizes : k <= l
        BY <3>1, LeastNatural, Zenon
      <3> QED
        BY <3>2, Zenon DEF sizes
    <2>3. PICK t \in fits : t.vcpus = n /\ t.mib = k
      BY <2>2
    <2>4. ASSUME NEW u \in fits PROVE ~Before(u, t)
      <3>1. n <= u.vcpus /\ n \in Nat
        BY <2>0, <2>1
      <3>2. u.vcpus = n => k <= u.mib
        BY <2>2
      <3> QED
        BY <2>0, <2>3, <3>1, <3>2 DEF Before
    <2> QED
      BY <2>4
  <1>3. (\E t \in types : Holds(t, cpu, mib)) => FirstFits(types, cpu, mib) # {}
    BY <1>2 DEF FirstFits
  <1> QED
    BY <1>1, <1>3

-----------------------------------------------------------------------------
(* Whatever is asked of whatever catalog.                                   *)

\* The search of SelectInstanceType, for any two CPU and two memory amounts
\* the quantities of a request came to: what it returns is of the catalog and
\* holds all four, and it returns nothing only if no type does.
THEOREM SelectionFits ==
    ASSUME NEW types, IsCatalog(types), NEW cpuRequest \in Int, NEW cpuLimit \in Int,
           NEW memoryRequest \in Int, NEW memoryLimit \in Int
    PROVE  LET chosen == FirstFits(types, Larger(cpuRequest, cpuLimit), Larger(memoryRequest, memoryLimit))
               HoldsAll(t) == /\ t.vcpus * 10000 >= cpuRequest /\ t.vcpus * 10000 >= cpuLimit
                              /\ t.mib >= memoryRequest /\ t.mib >= memoryLimit
           IN  /\ \A t \in chosen : t \in types /\ HoldsAll(t)
               /\ chosen = {} <=> \A t \in types : ~HoldsAll(t)
  <1> DEFINE cpu == Larger(cpuRequest, cpuLimit)
             mib == Larger(memoryRequest, memoryLimit)
             HoldsAll(t) == /\ t.vcpus * 10000 >= cpuRequest /\ t.vcpus * 10000 >= cpuLimit
                            /\ t.mib >= memoryRequest /\ t.mib >= memoryLimit
  <1>1. cpu \in Int /\ mib \in Int
    BY DEF Larger
  <1>2. \A t \in types : Holds(t, cpu, mib) <=> HoldsAll(t)
    BY DEF IsCatalog, Holds, Larger
  <1> HIDE DEF cpu, mib, HoldsAll
  <1>3. /\ \A t \in FirstFits(types, cpu, mib) : t \in types /\ Holds(t, cpu, mib)
        /\ (\E t \in types : Holds(t, cpu, mib)) => FirstFits(types, cpu, mib) # {}
    BY <1>1, FirstFitsAreFits
  <1>4. /\ \A t \in FirstFits(types, cpu, mib) : t \in types /\ HoldsAll(t)
        /\ FirstFits(types, cpu, mib) = {} <=> \A t \in types : ~HoldsAll(t)
    BY <1>2, <1>3, Zenon
  <1> QED
    BY <1>4 DEF cpu, mib, HoldsAll

\* So for a request: what is selected holds every quantity, and nothing is
\* selected only if a quantity is unreadable or no type holds them all.
LEMMA RequestIsFitted ==
    ASSUME NEW types, IsCatalog(types), NEW r \in Request
    PROVE  LET chosen == SelectInstanceType(types, r, {}) IN
           /\ \A t \in chosen : t \in types /\ HoldsRequest(t, r) /\ ValidateRequirements(r)
           /\ chosen = {} => \/ NothingAsked(r)
                             \/ ~ValidateRequirements(r)
                             \/ \A t \in types : ~HoldsRequest(t, r)
  <1> DEFINE cr == AmountOf(ParseCPU, r.cpuRequest)
             cl == AmountOf(ParseCPU, r.cpuLimit)
             mr == AmountOf(ParseMemory, r.memoryRequest)
             ml == AmountOf(ParseMemory, r.memoryLimit)
  <1>1. cr \in Int /\ cl \in Int /\ mr \in Int /\ ml \in Int
    BY ParsesAreNumbers DEF Request, AmountOf
  <1>2. \A t \in types : HoldsRequest(t, r) <=> /\ t.vcpus * 10000 >= cr /\ t.vcpus * 10000 >= cl
                                              /\ t.mib >= mr /\ t.mib >= ml
    BY DEF HoldsRequest
  <1>3. CASE NothingAsked(r)
    BY <1>3 DEF SelectInstanceType
  <1>4. CASE ~NothingAsked(r) /\ ~ValidateRequirements(r)
    BY <1>4 DEF SelectInstanceType
  <1>5. CASE ~NothingAsked(r) /\ ValidateRequirements(r)
    <2>1. SelectInstanceType(types, r, {}) = FirstFits(types, Larger(cr, cl), Larger(mr, ml))
      BY <1>5 DEF SelectInstanceType, Asked
    <2> HIDE DEF cr, cl, mr, ml
    <2> DEFINE chosen == FirstFits(types, Larger(cr, cl), Larger(mr, ml))
               HoldsAll(t) == /\ t.vcpus * 10000 >= cr /\ t.vcpus * 10000 >= cl
                              /\ t.mib >= mr /\ t.mib >= ml
    <2>2. /\ \A t \in chosen : t \in types /\ HoldsAll(t)
          /\ chosen = {} <=> \A t \in types : ~HoldsAll(t)
      BY <1>1, SelectionFits
    <2>3. \A t \in types : HoldsRequest(t, r) <=> HoldsAll(t)
      BY <1>2
    <2> HIDE DEF HoldsAll
    <2> QED
      BY <1>5, <2>1, <2>2, <2>3, Zenon
  <1> QED
    BY <1>3, <1>4, <1>5

\* Of all types that hold the amounts, one with fewer vCPUs or, among equals,
\* less memory would have been found first.
LEMMA ChosenComesFirst ==
    ASSUME NEW types, NEW cpu, NEW mib, NEW t \in FirstFits(types, cpu, mib),
           NEW u \in types, Holds(u, cpu, mib)
    PROVE  t \in types /\ Holds(t, cpu, mib) /\ ~Before(u, t)
  BY DEF FirstFits

\* The sizes of the catalogs: from one to the next the vCPUs of the EC2 types
\* grow by a third at least, and those of the KubeVirt types double.
EC2Sizes == {2, 4, 8, 16, 32, 48, 64, 96, 192}
KubeVirtSizes == {1, 2, 4, 8, 16, 32}

LEMMA EC2SizesGrow == \A n, m \in EC2Sizes : n < m => 3 * m >= 4 * n
  BY SMT DEF EC2Sizes

LEMMA KubeVirtSizesDouble == \A n, m \in KubeVirtSizes : n < m => m >= 2 * n
  BY SMT DEF KubeVirtSizes

LEMMA EC2TypesAre ==
    /\ \A t \in EC2Types : t.vcpus \in EC2Sizes /\ t.mib \in {k * t.vcpus : k \in {2048, 4096, 8192}}
    /\ \A n \in EC2Sizes, k \in {2048, 4096, 8192} :
          \E t \in EC2Types : t.vcpus = n /\ t.mib = k * n
  <1> DEFINE Family(name, k) == {Type(<<name, n>>, n, k * n) : n \in EC2Sizes}
  <1>1. EC2Types = Family("c7i", 2048) \cup Family("m7i", 4096) \cup Family("r7i", 8192)
    BY DEF EC2Types, EC2Sizes
  <1>2. \A name, k : /\ \A t \in Family(name, k) : t.vcpus \in EC2Sizes /\ t.mib = k * t.vcpus
                     /\ \A n \in EC2Sizes : \E t \in Family(name, k) : t.vcpus = n /\ t.mib = k * n
    <2>1. \A name, k : \A t \in Family(name, k) : t.vcpus \in EC2Sizes /\ t.mib = k * t.vcpus
      BY DEF Type
    <2>2. ASSUME NEW name, NEW k, NEW n \in EC2Sizes
          PROVE  \E t \in Family(name, k) : t.vcpus = n /\ t.mib = k * n
      <3>1. Type(<<name, n>>, n, k * n) \in Family(name, k)
        OBVIOUS
      <3>2. Type(<<name, n>>, n, k * n).vcpus = n /\ Type(<<name, n>>, n, k * n).mib = k * n
        BY DEF Type
      <3> QED
        BY <3>1, <3>2
    <2> HIDE DEF Family
    <2> QED
      BY <2>1, <2>2
  <1> HIDE DEF Family
  <1> QED
    BY <1>1, <1>2

LEMMA KubeVirtTypesAre ==
    \A t \in KubeVirtTypes : t.vcpus \in KubeVirtSizes /\ t.mib \in 0 .. 4096 * t.vcpus
  <1> DEFINE Family(name, k) == {Type(<<name, n>>, n, k * n) : n \in KubeVirtSizes}
  <1>1. KubeVirtTypes = Family("cx1", 2048) \cup Family("d1", 4096)
                          \cup {Type(<<"d1.micro", 1>>, 1, 1024), Type(<<"d1.small", 1>>, 1, 2048)}
    BY DEF KubeVirtTypes, KubeVirtSizes
  <1>2. \A name, k : \A t \in Family(name, k) : t.vcpus \in KubeVirtSizes /\ t.mib = k * t.vcpus
    BY DEF Type
  <1>3. \A n \in KubeVirtSizes : n \in Nat
    BY DEF KubeVirtSizes
  <1>4. \A t \in {Type(<<"d1.micro", 1>>, 1, 1024), Type(<<"d1.small", 1>>, 1, 2048)} :
           t.vcpus \in KubeVirtSizes /\ t.mib \in 0 .. 4096 * t.vcpus
    BY DEF Type, KubeVirtSizes
  <1> HIDE DEF Family
  <1>5. \A t \in Family("cx1", 2048) : t.vcpus \in KubeVirtSizes /\ t.mib \in 0 .. 4096 * t.vcpus
    BY <1>2, <1>3
  <1>6. \A t \in Family("d1", 4096) : t.vcpus \in KubeVirtSizes /\ t.mib \in 0 .. 4096 * t.vcpus
    BY <1>2, <1>3
  <1> QED
    BY <1>1, <1>4, <1>5, <1>6

\* A type with more vCPUs and a smaller footprint has less memory, by more
\* than the vCPUs it has in addition are worth.  In the EC2 families it would
\* have to be of a family with less memory per vCPU and still hold what the
\* next family below the chosen type's does not.
LEMMA EC2IsSmallest ==
    ASSUME NEW cpu \in Int, NEW mib \in Int, NEW t \in FirstFits(EC2Types, cpu, mib),
           NEW u \in EC2Types, Holds(u, cpu, mib)
    PROVE  Footprint(t) <= Footprint(u)
  <1>1. t \in EC2Types /\ Holds(t, cpu, mib) /\ ~Before(u, t)
    BY ChosenComesFirst
  <1>2. PICK n \in EC2Sizes, k \in {2048, 4096, 8192} : t.vcpus = n /\ t.mib = k * n
    BY <1>1, EC2TypesAre
  <1>3. PICK m \in EC2Sizes, j \in {2048, 4096, 8192} : u.vcpus = m /\ u.mib = j * m
    BY EC2TypesAre
  <1>4. n \in Nat /\ m \in Nat /\ n > 0 /\ m > 0
    BY DEF EC2Sizes
  <1>5. CASE m <= n
    BY <1>1, <1>2, <1>3, <1>4, <1>5 DEF Before, Footprint
  <1>6. CASE n < m
    <2>1. 3 * m >= 4 * n
      BY <1>6, EC2SizesGrow
    <2>2. ASSUME NEW l \in {2048, 4096, 8192}, l < k
          PROVE  l * n < mib
      <3>1. PICK v \in EC2Types : v.vcpus = n /\ v.mib = l * n
        BY EC2TypesAre
      <3>2. Before(v, t)
        BY <1>2, <1>4, <2>2, <3>1 DEF Before
      <3>3. ~Holds(v, cpu, mib)
        BY <3>2, ChosenComesFirst
      <3> QED
        BY <1>1, <1>2, <1>4, <3>1, <3>3 DEF Holds
    <2>3. j * m >= mib
      BY <1>3 DEF Holds
    <2>4. SUFFICES n * 8192 + k * n <= m * 8192 + j * m
      BY <1>2, <1>3 DEF Footprint
    <2>5. CASE k = 2048
      BY <1>4, <2>1, <2>5
    <2>6. CASE k = 4096
      <3>1. 2048 * n < j * m
        BY <1>4, <2>2, <2>3, <2>6
      <3> QED
        BY <1>4, <2>1, <2>6, <3>1
    <2>7. CASE k = 8192
      <3>1. 4096 * n < j * m
        BY <1>4, <2>2, <2>3, <2>7
      <3> QED
        BY <1>4, <2>1, <2>7, <3>1
    <2> QED
      BY <2>5, <2>6, <2>7
  <1> QED
    BY <1>4, <1>5, <1>6

LEMMA KubeVirtIsSmallest ==
    ASSUME NEW cpu \in Int, NEW mib \in Int, NEW t \in FirstFits(KubeVirtTypes, cpu, mib),
           NEW u \in KubeVirtTypes, Holds(u, cpu, mib)
    PROVE  Footprint(t) <= Footprint(u)
  <1>1. t \in KubeVirtTypes /\ ~Before(u, t)
    BY ChosenComesFirst
  <1>2. PICK n \in KubeVirtSizes, k \in Int : t.vcpus = n /\ t.mib = k /\ k \in 0 .. 4096 * n
    BY <1>1, KubeVirtTypesAre
  <1>3. PICK m \in KubeVirtSizes, j \in Int : u.vcpus = m /\ u.mib = j /\ j \in 0 .. 4096 * m
    BY KubeVirtTypesAre
  <1>4. n \in Nat /\ m \in Nat /\ k \in Nat /\ j \in Nat /\ k <= 4096 * n
    BY <1>2, <1>3 DEF KubeVirtSizes
  <1>5. CASE m <= n
    BY <1>1, <1>2, <1>3, <1>4, <1>5 DEF Before, Footprint
  <1>6. CASE n < m
    <2>1. m >= 2 * n
      BY <1>6, KubeVirtSizesDouble
    <2> QED
      BY <1>2, <1>3, <1>4, <2>1 DEF Footprint
  <1> QED
    BY <1>4, <1>5, <1>6

\* The comment on the sort, "smallest total footprint", for every amount: of
\* the types of a driver's catalog that hold what is asked for, the search
\* returns one with the smallest footprint.
THEOREM SelectionIsSmallest ==
    ASSUME NEW types \in Catalogs, NEW cpu \in Int, NEW mib \in Int,
           NEW t \in FirstFits(types, cpu, mib), NEW u \in types, Holds(u, cpu, mib)
    PROVE  Footprint(t) <= Footprint(u)
  <1>1. types = KubeVirtTypes \/ types = EC2Types
    BY DEF Catalogs
  <1> QED
    BY <1>1, KubeVirtIsSmallest, EC2IsSmallest

-----------------------------------------------------------------------------
(* The property of the runs.                                                *)

LEMMA TextsAreQuantities == CPUTexts \subseteq Quantities /\ MemoryTexts \subseteq Quantities
  <1>1. \A n \in Int, d \in Nat \ {0}, u \in Units : Number(n, d, u) \in Quantities
    BY DEF Quantities
  <1>2. {"m", "Ki", "Mi", "Gi", "Ti", "G", "T", "Pi", "Ei", "none"} \subseteq Units
    BY DEF Units, UnitNames
  <1>3. {Empty, Junk} \subseteq Quantities
    BY DEF Quantities
  <1> QED
    BY <1>1, <1>2, <1>3, SMT DEF CPUTexts, MemoryTexts

LEMMA CatalogsAreCatalogs == \A types \in Catalogs : IsCatalog(types)
  <1>1. \A n \in EC2Sizes \cup KubeVirtSizes : n \in Nat
    BY DEF EC2Sizes, KubeVirtSizes
  <1>2. IsCatalog(EC2Types)
    BY <1>1, EC2TypesAre DEF IsCatalog
  <1>3. IsCatalog(KubeVirtTypes)
    BY <1>1, KubeVirtTypesAre DEF IsCatalog
  <1> QED
    BY <1>2, <1>3 DEF Catalogs

LEMMA NothingIsMissized == ChosenHoldsRequest
  <1> SUFFICES ASSUME NEW types \in Catalogs, NEW r \in Requirements
               PROVE  LET chosen == SelectInstanceType(types, r, {})
                      IN  /\ \A t \in chosen : HoldsRequest(t, r) /\ ValidateRequirements(r)
                          /\ chosen = {} /\ ~NothingAsked(r) /\ ValidateRequirements(r)
                             => \A t \in types : ~HoldsRequest(t, r)
    BY DEF ChosenHoldsRequest, Missized
  <1>1. r \in Request
    BY TextsAreQuantities DEF Requirements, Request
  <1> QED
    BY <1>1, CatalogsAreCatalogs, RequestIsFitted

LEMMA NothingIsOversized == SmallestFootprint
  <1> SUFFICES ASSUME NEW types \in Catalogs, NEW c \in CPUAmounts, NEW m \in MemoryAmounts,
                      NEW t \in FirstFits(types, c * 10000, m * 1024), NEW u \in types,
                      Holds(u, c * 10000, m * 1024)
               PROVE  ~(Footprint(u) < Footprint(t))
    BY DEF SmallestFootprint, Oversized
  <1>1. \A n \in CPUAmounts : n \in Nat
    BY DEF CPUAmounts
  <1>2. c * 10000 \in Int /\ m * 1024 \in Int
    BY <1>1 DEF MemoryAmounts
  <1>3. Footprint(t) <= Footprint(u)
    BY <1>2, SelectionIsSmallest
  <1>4. t \in types
    BY ChosenComesFirst
  <1>5. Footprint(t) \in Int /\ Footprint(u) \in Int
    BY <1>4, CatalogsAreCatalogs DEF IsCatalog, Footprint
  <1> QED
    BY <1>3, <1>5

\* A driver that serves launches the smallest type of its catalog that holds
\* what was asked for, however that was written, and refuses only what no type
\* holds.
THEOREM AlwaysSizedToFit == Spec => []SizedToFit
  <1>1. SizedToFit
    BY NothingIsMissized, NothingIsOversized, SpellingsAgree DEF SizedToFit
  <1> QED
    BY <1>1, PTL
=============================================================================
