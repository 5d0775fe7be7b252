------------------------------- MODULE Sizing --------------------------------
(***************************************************************************)
(* From the resource quantities of a request to an instance type:          *)
(* pkg/quantity and SelectInstanceType of both drivers.  Pure operators.   *)
(*                                                                         *)
(* A quantity is the text of a request taken apart into a numeral num/den, *)
(* a sign and a unit ("none" without a suffix).  A CPU amount is a number  *)
(* of 1/10000 vCPU, a memory amount is rounded up to whole MiB: the        *)
(* catalogs have whole vCPUs and whole MiB only.                           *)
(*                                                                         *)
(* Numerals are exact here.  The code computes in float64, where the       *)
(* multiplier of every unit is exact but a numeral of more than 53 bits,   *)
(* or a fraction such as 0.001, and its product with the multiplier are    *)
(* rounded: for an amount within that rounding of a size of the catalog    *)
(* the code may decide differently.                                        *)
(***************************************************************************)
EXTENDS Integers, FiniteSets

Empty == [is |-> "empty"]
Junk == [is |-> "junk"]     \* blank, not a number, NaN or infinite
Number(num, den, unit) == [is |-> "number", num |-> num, den |-> den, unit |-> unit]

Unreadable == -1

RoundUp(n, d) == (n + d - 1) \div d

ParseCPU(q) ==
    IF q.is # "number" \/ q.num < 0 \/ q.unit \notin {"none", "m"} THEN Unreadable
    ELSE RoundUp(q.num * (IF q.unit = "m" THEN 10 ELSE 10000), q.den)

\* MiB per unit as a fraction <<m, d>>.
MiB(u) ==
    CASE u = "Ki" -> <<1, 1024>>           [] u \in {"k", "K"} -> <<125, 131072>>
      [] u = "Mi" -> <<1, 1>>              [] u = "M" -> <<15625, 16384>>
      [] u = "Gi" -> <<1024, 1>>           [] u = "G" -> <<1953125, 2048>>
      [] u = "Ti" -> <<1048576, 1>>        [] u = "T" -> <<244140625, 256>>
      [] u = "Pi" -> <<1073741824, 1>>     [] u = "P" -> <<78125 * 390625, 32>>
      [] u = "Ei" -> <<1048576 * 1048576, 1>>
      [] u = "E" -> <<1953125 * 1953125, 4>>
      [] u = "none" -> <<1, 1048576>>

ParseMemory(q) ==
    IF q.is # "number" \/ q.num < 0 \/ q.unit = "m" THEN Unreadable
    ELSE RoundUp(q.num * MiB(q.unit)[1], q.den * MiB(q.unit)[2])

\* Every quantity that is given must be readable.
ValidateRequirements(r) ==
    /\ \A q \in {r.cpuRequest, r.cpuLimit} : q # Empty => ParseCPU(q) # Unreadable
    /\ \A q \in {r.memoryRequest, r.memoryLimit} : q # Empty => ParseMemory(q) # Unreadable

-----------------------------------------------------------------------------
(* The catalogs.                                                            *)

Type(name, vcpus, mib) == [name |-> name, vcpus |-> vcpus, mib |-> mib]

KubeVirtTypes ==
    {Type(<<"cx1", n>>, n, 2048 * n) : n \in {1, 2, 4, 8, 16, 32}}
    \cup {Type(<<"d1", n>>, n, 4096 * n) : n \in {1, 2, 4, 8, 16, 32}}
    \cup {Type(<<"d1.micro", 1>>, 1, 1024), Type(<<"d1.small", 1>>, 1, 2048)}

EC2Types ==
    LET Family(name, perVCPU) == {Type(<<name, n>>, n, perVCPU * n) : n \in {2, 4, 8, 16, 32, 48, 64, 96, 192}}
    IN  Family("c7i", 2048) \cup Family("m7i", 4096) \cup Family("r7i", 8192)

\* Zero when it is not given.
AmountOf(Parse(_), q) == IF q = Empty THEN 0 ELSE Parse(q)

\* The amount asked for: the larger of the request and the limit that are given.
Larger_First(a, b) == a
Larger(a, b) == IF a >= b THEN a ELSE b
Asked(Parse(_), request, limit) ==
    Larger(AmountOf(Parse, request), AmountOf(Parse, limit))

Holds(t, cpu, mib) == t.vcpus * 10000 >= cpu /\ t.mib >= mib

\* The order of the catalog when it is searched.
Before(t, u) == t.vcpus < u.vcpus \/ (t.vcpus = u.vcpus /\ t.mib < u.mib)

\* The types SelectInstanceType may return: none is an error.  Two types of
\* one size stay in the order the unstable sort leaves them in.
FirstFits(types, cpu, mib) ==
    LET fits == {t \in types : Holds(t, cpu, mib)}
    IN  {t \in fits : \A u \in fits : ~Before(u, t)}

NothingAsked(r) == r.cpuRequest = Empty /\ r.cpuLimit = Empty /\ r.memoryRequest = Empty /\ r.memoryLimit = Empty

SelectInstanceType(types, r, default) ==
    IF NothingAsked(r) THEN default
    ELSE IF ~ValidateRequirements(r) THEN {}
    ELSE FirstFits(types, Asked(ParseCPU, r.cpuRequest, r.cpuLimit),
                          Asked(ParseMemory, r.memoryRequest, r.memoryLimit))

-----------------------------------------------------------------------------
(* Inputs.  None is of a unit whose MiB are more than the 31 bits TLC has   *)
(* for a number: Ei, P and E.  1/1000 Pi fits the largest type of EC2.      *)

CPUTexts == {Empty, Junk, Number(-1, 1, "none"), Number(1, 1, "Gi"), Number(0, 1, "none"), Number(500, 1, "m"),
             Number(1, 2, "none"), Number(1001, 1, "m"), Number(4, 1, "none"), Number(33, 1, "none"), Number(193, 1, "none")}
MemoryTexts == {Empty, Junk, Number(-1, 1, "Mi"), Number(500, 1, "m"), Number(0, 1, "Pi"), Number(1, 1, "Pi"),
                Number(1, 1000, "Pi"), Number(1048577, 1, "none"), Number(4, 1, "Gi"), Number(8193, 1, "Mi"), Number(8, 1, "G"),
                Number(90, 1, "Gi"), Number(1, 1, "T"), Number(3, 2, "Ti")}
Requirements == [cpuRequest : CPUTexts, cpuLimit : CPUTexts, memoryRequest : MemoryTexts, memoryLimit : MemoryTexts]
\* Whole amounts on both sides of every size of a catalog.
CPUAmounts == {0, 1, 2, 3, 4, 5, 8, 9, 16, 17, 32, 33, 48, 49, 64, 65, 96, 97, 192, 193}
MemoryAmounts == {n * k + d : n \in CPUAmounts, k \in {2, 4, 8}, d \in {0, 1}}
Catalogs == {KubeVirtTypes, EC2Types}

\* Pairs of texts for one amount.
CPUSpellings == {<<Number(500, 1, "m"), Number(1, 2, "none")>>, <<Number(4000, 1, "m"), Number(4, 1, "none")>>}
MemorySpellings == {<<Number(1, 1, "Ki"), Number(1024, 1, "none")>>, <<Number(2048, 1, "Ki"), Number(2, 1, "Mi")>>,
    <<Number(8, 1, "Gi"), Number(8192, 1, "Mi")>>, <<Number(1, 1, "Ti"), Number(1024, 1, "Gi")>>,
    <<Number(3, 2, "Gi"), Number(1536, 1, "Mi")>>, <<Number(1, 1, "k"), Number(1000, 1, "none")>>,
    <<Number(1, 1, "M"), Number(1000, 1, "K")>>, <<Number(4, 1, "G"), Number(4000, 1, "M")>>,
    <<Number(1, 1, "T"), Number(1000, 1, "G")>>, <<Number(1, 1024, "Pi"), Number(1, 1, "Ti")>>}

-----------------------------------------------------------------------------
(* Properties.                                                              *)

HoldsRequest(t, r) ==
    /\ \A q \in {r.cpuRequest, r.cpuLimit} : t.vcpus * 10000 >= AmountOf(ParseCPU, q)
    /\ \A q \in {r.memoryRequest, r.memoryLimit} : t.mib >= AmountOf(ParseMemory, q)
Missized ==
    {x \in Catalogs \X Requirements :
        LET chosen == SelectInstanceType(x[1], x[2], {})
        IN  \/ \E t \in chosen : ~HoldsRequest(t, x[2]) \/ ~ValidateRequirements(x[2])
            \/ /\ chosen = {} /\ ~NothingAsked(x[2]) /\ ValidateRequirements(x[2])
               /\ \E t \in x[1] : HoldsRequest(t, x[2])}

\* The type that is launched holds each quantity of the request, requests and
\* limits alike, and a request is refused only when a quantity is unreadable
\* or no type of the catalog holds them all.
ChosenHoldsRequest == Missized = {}

Footprint(t) == t.vcpus * 8192 + t.mib
Oversized ==
    {x \in Catalogs \X CPUAmounts \X MemoryAmounts :
        \E t \in FirstFits(x[1], x[2] * 10000, x[3] * 1024), u \in x[1] :
            Holds(u, x[2] * 10000, x[3] * 1024) /\ Footprint(u) < Footprint(t)}

\* Searching by vCPUs and then by memory picks the type with the smallest
\* total footprint, as the comment on the sort says: with 8 GiB counted as one
\* vCPU (the ratio of the memory family), no type that holds the request is
\* smaller.  With 4 GiB per vCPU it is not so: for 33 vCPUs and 200 GiB the
\* search stops at 48 vCPUs and 384 GiB, before 64 vCPUs and 256 GiB.
SmallestFootprint == Oversized = {}

\* One amount written in two units selects the same type.
SpellingIsIrrelevant ==
    /\ \A pair \in CPUSpellings : ParseCPU(pair[1]) = ParseCPU(pair[2])
    /\ \A pair \in MemorySpellings : ParseMemory(pair[1]) = ParseMemory(pair[2])
===============================================================================
