-------------------------- MODULE DiscoveryProofs --------------------------
(***************************************************************************)
(* What a machine proposes about itself, for every machine: the list of    *)
(* CPUs it isolates survives being written and read, and the address, the  *)
(* prefix length and the route it proposes are its own.                    *)
(*                                                                         *)
(* The loop that writes a list is a function defined by its own values.    *)
(* That there is one, and what it computes, is shown by induction, stated  *)
(* for sets: InductiveSet is applied to the set of the numbers of which    *)
(* the claim is true.                                                      *)
(***************************************************************************)
EXTENDS Discovery, FiniteSetTheorems, SequenceTheorems, WellFoundedInduction, TLAPS

-----------------------------------------------------------------------------
(* Natural numbers.                                                        *)

LEMMA LeastOf ==
  ASSUME NEW T \in SUBSET Nat, T # {}
  PROVE  Min(T) \in T /\ \A y \in T : Min(T) <= y
<1>1. PICK x \in T : \A y \in T : ~ (<<y, x>> \in OpToRel(<, Nat))
  BY NatLessThanWellFounded, WFMin
<1>2. \A y \in T : ~(y < x)
  BY <1>1 DEF OpToRel
<1>3. \A y \in T : x <= y
  BY <1>2
<1>. QED  BY <1>3 DEF Min

LEMMA GreatestOf ==
  ASSUME NEW T \in SUBSET Nat, T # {}, NEW bound \in Nat, \A x \in T : x <= bound
  PROVE  Max(T) \in T /\ \A y \in T : y <= Max(T)
<1> DEFINE Bounds == {n \in Nat : \A x \in T : x <= n}
           m == Min(Bounds)
<1>1. m \in Bounds /\ \A n \in Bounds : m <= n
  <2>1. bound \in Bounds
    OBVIOUS
  <2> HIDE DEF Bounds
  <2>2. Bounds \in SUBSET Nat
    BY DEF Bounds
  <2>. QED  BY <2>1, <2>2, LeastOf
<1>2. m \in T
  <2>1. SUFFICES ASSUME m \notin T PROVE FALSE
    OBVIOUS
  <2> HIDE DEF m
  <2>2. m \in Nat /\ \A x \in T : x <= m /\ x # m
    BY <1>1, <2>1
  <2>3. \A x \in T : x <= m - 1
    BY <2>2
  <2>4. m - 1 \in Nat
    <3>1. PICK x \in T : TRUE
      OBVIOUS
    <3>. QED  BY <2>2, <3>1
  <2>5. m - 1 \in Bounds
    BY <2>3, <2>4
  <2>. QED  BY <1>1, <2>2, <2>5
<1>3. \A y \in T : y <= m
  BY <1>1
<1> HIDE DEF m
<1>. QED  BY <1>1, <1>2, <1>3 DEF Max

\* A set that has 0, and the successor of what it has, is the whole of Nat: the
\* induction principle, for a set.
LEMMA InductiveSet ==
  ASSUME NEW S \in SUBSET Nat, 0 \in S, \A n \in S : n + 1 \in S
  PROVE  S = Nat
<1>1. SUFFICES ASSUME Nat \ S # {} PROVE FALSE
  OBVIOUS
<1>2. PICK x \in Nat \ S : \A y \in Nat \ S : x <= y
  BY <1>1, LeastOf
<1>3. x - 1 \in S
  BY <1>2
<1>. QED  BY <1>2, <1>3

-----------------------------------------------------------------------------
(* What a list of chunks reads as.                                         *)

LEMMA CpuListIsBounded ==
  ASSUME NEW chunks \in CpuLists
  PROVE  \E bound \in Nat : \A n \in DOMAIN chunks :
           chunks[n] # <<>> => chunks[n][2] <= bound
<1> DEFINE Bounded(k) ==
             \E bound \in Nat : \A n \in DOMAIN chunks :
               n <= k /\ chunks[n] # <<>> => chunks[n][2] <= bound
           S == {k \in Nat : Bounded(k)}
<1>1. DOMAIN chunks = 1..Len(chunks) /\ Len(chunks) \in Nat
      /\ \A n \in DOMAIN chunks : chunks[n] # <<>> => chunks[n][2] \in Nat
  BY DEF CpuLists
<1>2. Bounded(0)
  BY <1>1
<1>3. ASSUME NEW k \in Nat, Bounded(k) PROVE Bounded(k + 1)
  <2>1. PICK bound \in Nat : \A n \in DOMAIN chunks :
               n <= k /\ chunks[n] # <<>> => chunks[n][2] <= bound
    BY <1>3
  <2>2. CASE k + 1 \in DOMAIN chunks /\ chunks[k + 1] # <<>>
    <3> DEFINE higher == IF chunks[k + 1][2] <= bound THEN bound ELSE chunks[k + 1][2]
    <3>1. higher \in Nat /\ bound <= higher /\ chunks[k + 1][2] <= higher
      BY <1>1, <2>2
    <3> HIDE DEF higher
    <3>2. ASSUME NEW n \in DOMAIN chunks, n <= k + 1, chunks[n] # <<>>
          PROVE  chunks[n][2] <= higher
      BY <1>1, <2>1, <3>1, <3>2
    <3>. QED  BY <3>1, <3>2
  <2>3. CASE ~(k + 1 \in DOMAIN chunks /\ chunks[k + 1] # <<>>)
    <3>1. \A n \in DOMAIN chunks :
               n <= k + 1 /\ chunks[n] # <<>> => chunks[n][2] <= bound
      BY <1>1, <2>1, <2>3
    <3>. QED  BY <3>1
  <2>. QED  BY <2>2, <2>3
<1>4. S = Nat
  <2> HIDE DEF Bounded
  <2>1. 0 \in S /\ \A k \in S : k + 1 \in S
    BY <1>2, <1>3
  <2> HIDE DEF S
  <2>2. S \in SUBSET Nat
    BY DEF S
  <2>. QED  BY <2>1, <2>2, InductiveSet
<1>5. Bounded(Len(chunks))
  <2> HIDE DEF Bounded
  <2>. QED  BY <1>1, <1>4
<1>. QED  BY <1>1, <1>5

LEMMA ReadsAsCpus ==
  ASSUME NEW chunks \in CpuLists
  PROVE  /\ \A cpu : cpu \in ParseCpuList(chunks) <=>
              \E n \in DOMAIN chunks : chunks[n] # <<>> /\ cpu \in chunks[n][1]..chunks[n][2]
         /\ ParseCpuList(chunks) \in SUBSET Nat /\ IsFiniteSet(ParseCpuList(chunks))
         /\ \E bound \in Nat : \A cpu \in ParseCpuList(chunks) : cpu <= bound
<1>1. \A cpu : cpu \in ParseCpuList(chunks) <=>
        \E n \in DOMAIN chunks : chunks[n] # <<>> /\ cpu \in chunks[n][1]..chunks[n][2]
  BY DEF ParseCpuList, Parsed
<1>2. \A n \in DOMAIN chunks : chunks[n] # <<>> => chunks[n] \in Nat \X Nat
  BY DEF CpuLists
<1>3. ParseCpuList(chunks) \in SUBSET Nat
  BY <1>1, <1>2
<1>4. PICK bound \in Nat : \A n \in DOMAIN chunks :
              chunks[n] # <<>> => chunks[n][2] <= bound
  BY CpuListIsBounded
<1>5. \A cpu \in ParseCpuList(chunks) : cpu <= bound
  BY <1>1, <1>2, <1>4
<1>6. IsFiniteSet(ParseCpuList(chunks))
  BY <1>3, <1>5, FS_BoundedSetOfNaturals
<1>. QED  BY <1>1, <1>3, <1>5, <1>6

-----------------------------------------------------------------------------
(* The list a set of CPUs is written as.                                   *)

\* The ranges are those of the CPUs below n, and no other.
RangesOf(ranges, cpus, n) ==
  /\ ranges \in Seq(Nat \X Nat)
  /\ \A i \in 1..Len(ranges) : ranges[i][1] <= ranges[i][2]
  /\ \A cpu \in Nat : cpu \in cpus /\ cpu < n <=>
       \E i \in 1..Len(ranges) : cpu \in ranges[i][1]..ranges[i][2]

Visited(cpus, ranges, n) == IF n \in cpus THEN ExtendRanges(ranges, n) ELSE ranges

LEMMA VisitedExtends ==
  ASSUME NEW cpus \in SUBSET Nat, NEW ranges, NEW n \in Nat, RangesOf(ranges, cpus, n)
  PROVE  RangesOf(Visited(cpus, ranges, n), cpus, n + 1)
<1> DEFINE last == Len(ranges)
<1>0. ASSUME n \in cpus
      PROVE  \A cpu \in Nat : cpu \in cpus /\ cpu < n + 1 <=>
               cpu = n \/ \E i \in 1..last : cpu \in ranges[i][1]..ranges[i][2]
  <2>1. \A cpu \in Nat : cpu \in cpus /\ cpu < n + 1 <=> cpu = n \/ (cpu \in cpus /\ cpu < n)
    BY <1>0
  <2>. QED  BY <2>1 DEF RangesOf
<1>1. /\ ranges \in Seq(Nat \X Nat) /\ last \in Nat
      /\ \A i \in 1..last : ranges[i] \in Nat \X Nat /\ ranges[i][1] <= ranges[i][2]
  BY DEF RangesOf
<1>2. CASE n \notin cpus
  <2>1. \A cpu \in Nat : cpu \in cpus /\ cpu < n + 1 <=> cpu \in cpus /\ cpu < n
    BY <1>2
  <2>. QED  BY <1>2, <2>1 DEF RangesOf, Visited
<1>3. CASE n \in cpus /\ ranges # <<>> /\ ranges[last][2] + 1 = n
  <2> DEFINE lo == ranges[last][1]
             longer == [ranges EXCEPT ![last] = <<lo, n>>]
  <2>1. last \in 1..last /\ lo \in Nat /\ lo <= n
    <3>1. last # 0
      BY <1>1, <1>3
    <3>2. last \in 1..last
      BY <1>1, <3>1
    <3>3. ranges[last][1] \in Nat /\ ranges[last][2] \in Nat
            /\ ranges[last][1] <= ranges[last][2]
      BY <1>1, <3>2
    <3>. QED  BY <1>3, <3>2, <3>3
  <2>2. Visited(cpus, ranges, n) = longer
    BY <1>3 DEF Visited, ExtendRanges, Last
  <2>3. /\ longer \in Seq(Nat \X Nat) /\ Len(longer) = last
        /\ longer[last] = <<lo, n>>
        /\ \A i \in 1..last : i # last => longer[i] = ranges[i]
    BY <1>1, <2>1
  <2>4. \A cpu \in Nat : cpu \in lo..n <=> cpu = n \/ cpu \in lo..ranges[last][2]
    BY <1>1, <1>3, <2>1
  <2> HIDE DEF longer
  <2>5. ASSUME NEW i \in 1..last PROVE longer[i][1] <= longer[i][2]
    <3>1. CASE i = last
      BY <2>1, <2>3, <3>1
    <3>2. CASE i # last
      BY <1>1, <2>3, <3>2
    <3>. QED  BY <3>1, <3>2
  <2>6. ASSUME NEW cpu \in Nat
        PROVE  (\E i \in 1..last : cpu \in longer[i][1]..longer[i][2])
                 <=> cpu = n \/ \E i \in 1..last : cpu \in ranges[i][1]..ranges[i][2]
    <3>1. cpu \in longer[last][1]..longer[last][2]
            <=> cpu = n \/ cpu \in ranges[last][1]..ranges[last][2]
      BY <2>3, <2>4
    <3>. QED  BY <2>1, <2>3, <3>1
  <2>. QED  BY <1>0, <1>3, <2>2, <2>3, <2>5, <2>6 DEF RangesOf
<1>4. CASE n \in cpus /\ ~(ranges # <<>> /\ ranges[last][2] + 1 = n)
  <2> DEFINE longer == Append(ranges, <<n, n>>)
  <2>1. Visited(cpus, ranges, n) = longer
    BY <1>4 DEF Visited, ExtendRanges, Last
  <2>2. /\ longer \in Seq(Nat \X Nat) /\ Len(longer) = last + 1
        /\ longer[last + 1] = <<n, n>>
        /\ \A i \in 1..last : longer[i] = ranges[i]
    <3>1. <<n, n>> \in Nat \X Nat
      OBVIOUS
    <3> HIDE DEF last
    <3>. QED  BY <1>1, <3>1, AppendProperties DEF last
  <2> HIDE DEF longer
  <2>0. \A i \in 1..last + 1 : i = last + 1 \/ i \in 1..last
    <3> HIDE DEF last
    <3>. QED  BY <1>1
  <2>3. ASSUME NEW i \in 1..last + 1 PROVE longer[i][1] <= longer[i][2]
    <3>1. CASE i = last + 1
      BY <2>2, <3>1
    <3>2. CASE i \in 1..last
      BY <1>1, <2>2, <3>2
    <3>. QED  BY <2>0, <3>1, <3>2
  <2>4. ASSUME NEW cpu \in Nat
        PROVE  (\E i \in 1..last + 1 : cpu \in longer[i][1]..longer[i][2])
                 <=> cpu = n \/ \E i \in 1..last : cpu \in ranges[i][1]..ranges[i][2]
    <3>1. cpu \in longer[last + 1][1]..longer[last + 1][2] <=> cpu = n
      BY <2>2
    <3>2. last + 1 \in 1..last + 1 /\ 1..last \subseteq 1..last + 1
      BY <1>1
    <3>. QED  BY <2>0, <2>2, <3>1, <3>2
  <2>. QED  BY <1>0, <1>4, <2>1, <2>2, <2>3, <2>4 DEF RangesOf
<1>. QED  BY <1>2, <1>3, <1>4

\* The loop of the code is a function that is defined by its own values: there
\* is one, whatever the number of CPUs.
LEMMA RangesUpToDefined ==
  ASSUME NEW cpus, NEW last \in Nat
  PROVE  RangesUpTo(cpus, last) =
           [n \in 0..last + 1 |-> IF n = 0 THEN <<>>
              ELSE Visited(cpus, RangesUpTo(cpus, last)[n - 1], n - 1)]
<1> DEFINE Value(f, n) == IF n = 0 THEN <<>> ELSE Visited(cpus, f[n - 1], n - 1)
           Defines(f, k) == f = [n \in 0..k |-> Value(f, n)]
           S == {k \in Nat : \E f : Defines(f, k)}
<1>1. \E f : Defines(f, 0)
  <2>1. Defines([n \in 0..0 |-> <<>>], 0)
    OBVIOUS
  <2>. QED  BY <2>1
<1>2. ASSUME NEW k \in Nat, NEW f, Defines(f, k)
      PROVE  \E g : Defines(g, k + 1)
  <2> DEFINE g == [n \in 0..k + 1 |-> Value(f, n)]
  <2>1. \A n \in 0..k : g[n] = f[n]
    BY <1>2
  <2>2. \A n \in 0..k + 1 : Value(f, n) = Value(g, n)
    <3> HIDE DEF g
    <3>. QED  BY <2>1
  <2>3. Defines(g, k + 1)
    BY <2>2
  <2>. QED  BY <2>3
<1>3. S = Nat
  <2> HIDE DEF Defines
  <2>1. 0 \in S /\ \A k \in S : k + 1 \in S
    BY <1>1, <1>2
  <2>2. S \in SUBSET Nat
    OBVIOUS
  <2> HIDE DEF S
  <2>. QED  BY <2>1, <2>2, InductiveSet
<1>4. \E f : Defines(f, last + 1)
  <2> HIDE DEF Defines
  <2>. QED  BY <1>3
<1>5. RangesUpTo(cpus, last) = CHOOSE f : Defines(f, last + 1)
  BY DEF RangesUpTo, Visited
<1>6. Defines(RangesUpTo(cpus, last), last + 1)
  <2> HIDE DEF Defines
  <2>. QED  BY <1>4, <1>5
<1>. QED  BY <1>6

LEMMA RangesUpToAre ==
  ASSUME NEW cpus \in SUBSET Nat, NEW last \in Nat
  PROVE  RangesOf(RangesUpTo(cpus, last)[last + 1], cpus, last + 1)
<1> DEFINE ranges == RangesUpTo(cpus, last)
           S == {n \in Nat : n <= last + 1 => RangesOf(ranges[n], cpus, n)}
<1>1. \A n \in 0..last + 1 :
        ranges[n] = IF n = 0 THEN <<>> ELSE Visited(cpus, ranges[n - 1], n - 1)
  BY RangesUpToDefined
<1> HIDE DEF ranges
<1>2. 0 \in S
  <2>1. ranges[0] = <<>>
    BY <1>1
  <2>2. /\ <<>> \in Seq(Nat \X Nat) /\ Len(<<>>) = 0
        /\ \A cpu \in Nat : ~(cpu < 0)
    OBVIOUS
  <2>3. RangesOf(<<>>, cpus, 0)
    BY <2>2 DEF RangesOf
  <2>. QED  BY <2>1, <2>3
<1>3. ASSUME NEW n \in S PROVE n + 1 \in S
  <2>1. CASE n + 1 <= last + 1
    <3>1. RangesOf(ranges[n], cpus, n)
      BY <1>3, <2>1
    <3>2. n + 1 \in 0..last + 1 /\ n + 1 # 0 /\ (n + 1) - 1 = n
      BY <2>1
    <3>3. ranges[n + 1] = Visited(cpus, ranges[n], n)
      BY <1>1, <3>2
    <3>. QED  BY <3>1, <3>3, VisitedExtends
  <2>2. CASE ~(n + 1 <= last + 1)
    BY <2>2
  <2>. QED  BY <2>1, <2>2
<1>4. S = Nat
  <2>1. S \in SUBSET Nat
    OBVIOUS
  <2> HIDE DEF S
  <2>. QED  BY <1>2, <1>3, <2>1, InductiveSet
<1>. QED  BY <1>4 DEF ranges

\* A set of CPUs is written as ranges and read back as itself (_as_cpu_list,
\* parse_cpu_list).
THEOREM CpuListReadsBack ==
  ASSUME NEW cpus \in SUBSET Nat, cpus # {}, NEW bound \in Nat, \A cpu \in cpus : cpu <= bound
  PROVE  /\ AsCpuList(cpus) \in CpuLists /\ AsCpuList(cpus) # <<>>
         /\ ParseCpuList(AsCpuList(cpus)) = cpus
<1> DEFINE last == Max(cpus)
           ranges == AsCpuList(cpus)
<1>1. last \in cpus /\ \A cpu \in cpus : cpu <= last
  BY GreatestOf
<1>2. RangesOf(ranges, cpus, last + 1)
  BY <1>1, RangesUpToAre DEF AsCpuList
<1> HIDE DEF last, ranges
<1>3. /\ ranges \in Seq(Nat \X Nat) /\ ranges \in CpuLists
      /\ DOMAIN ranges = 1..Len(ranges) /\ \A i \in DOMAIN ranges : ranges[i] # <<>>
  BY <1>2 DEF RangesOf, CpuLists
<1>4. ParseCpuList(ranges) \in SUBSET Nat
      /\ \A cpu : cpu \in ParseCpuList(ranges) <=>
           \E i \in DOMAIN ranges : cpu \in ranges[i][1]..ranges[i][2]
  BY <1>3, ReadsAsCpus
<1>5. \A cpu \in Nat : cpu \in ParseCpuList(ranges) <=> cpu \in cpus
  <2>1. \A cpu \in cpus : cpu < last + 1
    BY <1>1
  <2>2. \A cpu \in Nat : cpu \in cpus <=>
          \E i \in 1..Len(ranges) : cpu \in ranges[i][1]..ranges[i][2]
    BY <1>2, <2>1 DEF RangesOf
  <2>. QED  BY <1>3, <1>4, <2>2
<1>6. ranges # <<>>
  BY <1>1, <1>2, <1>3 DEF RangesOf
<1>. QED  BY <1>3, <1>4, <1>5, <1>6 DEF ranges

-----------------------------------------------------------------------------
(* What a machine proposes about itself.                                   *)

LEMMA IsolatedIsSet ==
  ASSUME NEW machine, IsMachine(machine)
  PROVE  /\ IsolatedNow(machine) \in SUBSET Nat /\ Online(machine) \in Nat
         /\ \E bound \in Nat : \A cpu \in IsolatedNow(machine) : cpu <= bound
<1>1. {machine.online, machine.isolated, machine.cmdline} \subseteq CpuLists
  BY DEF IsMachine
<1>2. Online(machine) \in Nat
  BY <1>1, ReadsAsCpus, FS_CardinalityType DEF Online
<1>3. PICK list \in CpuLists : IsolatedNow(machine) = ParseCpuList(list)
  BY <1>1 DEF IsolatedNow
<1>. QED  BY <1>2, <1>3, ReadsAsCpus

\* The proposal is the set the machine isolates, through the text and back, and
\* when it isolates none, no housekeeping CPU and none past the number online.
THEOREM ProposedIsolation ==
  ASSUME NEW machine, IsMachine(machine)
  PROVE  LET list == ProposeIsolation(IsolatedNow(machine), Online(machine)) IN
         /\ list # <<>> => ParseCpuList(list) # {}
         /\ IF IsolatedNow(machine) # {} THEN ParseCpuList(list) = IsolatedNow(machine)
            ELSE ParseCpuList(list) \subseteq Housekeeping..(Online(machine) - 1)
<1> DEFINE isolated == IsolatedNow(machine)
           online == Online(machine)
           list == ProposeIsolation(isolated, online)
<1>1. /\ isolated \in SUBSET Nat /\ online \in Nat
      /\ \E bound \in Nat : \A cpu \in isolated : cpu <= bound
  BY IsolatedIsSet
<1> HIDE DEF isolated, online
<1>2. CASE isolated # {}
  <2>1. ParseCpuList(AsCpuList(isolated)) = isolated
    BY <1>1, <1>2, CpuListReadsBack
  <2>2. list = AsCpuList(isolated)
    BY <1>2 DEF ProposeIsolation
  <2>. QED  BY <1>2, <2>1, <2>2 DEF isolated, online
<1>3. CASE isolated = {} /\ online <= Housekeeping
  <2>1. list = <<>>
    BY <1>3 DEF ProposeIsolation
  <2>2. ParseCpuList(<<>>) = {}
    BY DEF ParseCpuList, Parsed
  <2>. QED  BY <1>3, <2>1, <2>2 DEF isolated, online
<1>4. CASE isolated = {} /\ ~(online <= Housekeeping)
  <2> DEFINE range == <<Housekeeping, online - 1>>
  <2>1. list = <<range>>
    BY <1>4 DEF ProposeIsolation
  <2>2. Housekeeping \in Nat \ {0} /\ Housekeeping <= online - 1 /\ range \in Nat \X Nat
    BY <1>1, <1>4, InventoryDocumentAssumption
  <2>3. range # <<>> /\ range[1] = Housekeeping /\ range[2] = online - 1
    OBVIOUS
  <2> HIDE DEF range
  <2>4. <<range>> \in CpuLists /\ DOMAIN <<range>> = {1} /\ <<range>>[1] = range
    BY <2>2 DEF CpuLists
  <2>5. \A cpu : cpu \in ParseCpuList(<<range>>) <=> cpu \in Housekeeping..online - 1
    BY <2>3, <2>4, ReadsAsCpus
  <2>6. ParseCpuList(<<range>>) # {} /\ ParseCpuList(<<range>>) \subseteq Housekeeping..(online - 1)
    BY <1>1, <2>2, <2>5
  <2>. QED  BY <1>4, <2>1, <2>6 DEF isolated, online
<1>. QED  BY <1>2, <1>3, <1>4 DEF isolated, online

LEMMA DefaultRowIs ==
  ASSUME NEW machine, IsMachine(machine), HasDefaultRoute(machine)
  PROVE  /\ DefaultRow(machine) \in DOMAIN machine.routes
         /\ machine.routes[DefaultRow(machine)].destination = 0
<1> DEFINE I == {i \in 1..Len(machine.routes) : machine.routes[i].destination = 0}
<1>1. DefaultRow(machine) = IF I # {} THEN Min(I) ELSE 0
  BY Zenon DEF DefaultRow, SelectInSeq
<1>2. I # {} /\ I \in SUBSET Nat
  BY <1>1 DEF HasDefaultRoute
<1>3. DOMAIN machine.routes = 1..Len(machine.routes)
  BY DEF IsMachine
<1> HIDE DEF I
<1>4. Min(I) \in I
  BY <1>2, LeastOf
<1>. QED  BY <1>1, <1>2, <1>3, <1>4 DEF I

\* The address that is proposed is one of the link, and so is its prefix length
\* when it has one.
LEMMA FirstInetIs ==
  ASSUME NEW machine, IsMachine(machine), NEW link, FirstInet(machine, link) # 0
  PROVE  LET rows == InterfaceAddresses(machine, link)
             n == FirstInet(machine, link)
         IN  /\ n \in DOMAIN rows /\ rows = machine.addresses[link]
             /\ rows[n].family = "inet" /\ rows[n].local \in Addresses
             /\ PrefixLength(machine, link) \in 1..Width
             /\ rows[n].prefix # 0 => PrefixLength(machine, link) = rows[n].prefix
<1> DEFINE rows == InterfaceAddresses(machine, link)
           I == {i \in 1..Len(rows) : rows[i].family = "inet"}
           J == {i \in 1..Len(rows) : rows[i].family = "inet" /\ rows[i].prefix # 0}
<1>1. FirstInet(machine, link) = IF I # {} THEN Min(I) ELSE 0
  BY Zenon DEF FirstInet, SelectInSeq
<1>2. FirstPrefixed(machine, link) = IF J # {} THEN Min(J) ELSE 0
  BY Zenon DEF FirstPrefixed, SelectInSeq
<1>3. I # {} /\ I \in SUBSET Nat /\ J \in SUBSET I
  BY <1>1
<1>4. rows = machine.addresses[link] /\ link \in DOMAIN machine.addresses
  BY <1>3 DEF InterfaceAddresses
<1>5. /\ DOMAIN rows = 1..Len(rows)
      /\ \A i \in I : rows[i].local \in Addresses /\ rows[i].prefix \in 0..Width
  BY <1>4 DEF IsMachine
<1> HIDE DEF rows
<1>6. Min(I) \in I /\ \A i \in I : Min(I) <= i
  <2> HIDE DEF I
  <2>. QED  BY <1>3, LeastOf
<1>7. J # {} => Min(J) \in J /\ \A i \in J : Min(J) <= i
  <2> HIDE DEF I, J
  <2>. QED  BY <1>3, LeastOf
<1>8. PrefixLength(machine, link) = IF J # {} THEN rows[Min(J)].prefix ELSE DefaultSubnet
  BY <1>2, <1>7 DEF PrefixLength, rows
<1>9. PrefixLength(machine, link) \in 1..Width
  BY <1>5, <1>7, <1>8, InventoryDocumentAssumption
<1>10. ASSUME rows[Min(I)].prefix # 0
       PROVE  PrefixLength(machine, link) = rows[Min(I)].prefix
  <2>1. Min(I) \in J
    BY <1>6, <1>10
  <2>2. Min(J) = Min(I)
    BY <1>3, <1>6, <1>7, <2>1
  <2>. QED  BY <1>8, <2>1, <2>2
<1>. QED  BY <1>1, <1>3, <1>4, <1>5, <1>6, <1>9, <1>10 DEF rows

=============================================================================
