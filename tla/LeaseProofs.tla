---------------------------- MODULE LeaseProofs ----------------------------
(* Proofs about the DHCP server of MCAccessPoint, for all values of the    *)
(* constants: its leases are for one station and one address each, its     *)
(* pool is sound, and its scan for a free address finds one.               *)
EXTENDS MCAccessPoint, SequenceTheorems, FiniteSetTheorems, WellFoundedInduction, TLAPS

(* A pool: the hosts between two of one subnet.                            *)
Hosting(p) ==
  /\ p \in [enable : BOOLEAN, start : Nat, end : Nat]
  /\ p.start <= p.end /\ D!Net(p.start) = D!Net(p.end)
  /\ p.start % Hosts # 0 /\ p.end % Hosts # Hosts - 1

PoolInv == server \in ApIps /\ Hosting(pool)

DhcpTyped ==
  /\ leases \in SUBSET [ip : D!Addresses, mac : Macs, timer : Nat \ {0}]
  /\ plus \in D!Addresses /\ bound \in [Macs -> [ip : Nat, left : 0 .. LeaseTicks]]

(* No two leases are for one station or one address.                       *)
OneLease == \A l, k \in leases : l # k => l.ip # k.ip /\ l.mac # k.mac

(* A station whose lease the server did not drop has one that lasts at     *)
(* least as long as the station counts on it.                              *)
BoundLeased ==
  \A m \in Macs \ dropped :
    bound[m].ip # 0 =>
      \E l \in leases : l.mac = m /\ l.ip = bound[m].ip /\ bound[m].left <= l.timer

DhcpInv == PoolInv /\ DhcpTyped /\ OneLease /\ BoundLeased

(* Integer division by the size of a subnet.                               *)
LEMMA InSubnet ==
  ASSUME NEW a \in Nat
  PROVE  D!Net(a) \in Nat /\ a % Hosts \in 0 .. (Hosts - 1)
  BY SubnetAssumption DEF D!Net

LEMMA Divided ==
  ASSUME NEW a \in Nat
  PROVE  a = D!Net(a) * Hosts + (a % Hosts)
  BY SubnetAssumption DEF D!Net

LEMMA Subnets ==
  ASSUME NEW n \in Nat
  PROVE  n * Hosts \in Nat
  BY SubnetAssumption

LEMMA SubnetOf ==
  ASSUME NEW n \in Nat, NEW r \in 0 .. (Hosts - 1)
  PROVE  D!Net(n * Hosts + r) = n /\ (n * Hosts + r) % Hosts = r
<1> DEFINE a == n * Hosts + r  q == D!Net(a)  t == a % Hosts
<1>1. a \in Nat
  BY SubnetAssumption
<1> HIDE DEF q, t
<1>2. q \in Nat /\ t \in 0 .. (Hosts - 1) /\ a = q * Hosts + t
  BY <1>1, InSubnet, Divided DEF q, t
<1>3. ASSUME q < n PROVE FALSE
  <2>1. (q + 1) * Hosts <= n * Hosts
    BY <1>2, <1>3, SubnetAssumption
  <2>2. (q + 1) * Hosts = q * Hosts + Hosts
    BY <1>2, SubnetAssumption
  <2> QED
    BY <1>2, <2>1, <2>2, SubnetAssumption
<1>4. ASSUME q > n PROVE FALSE
  <2>1. (n + 1) * Hosts <= q * Hosts
    BY <1>2, <1>4, SubnetAssumption
  <2>2. (n + 1) * Hosts = n * Hosts + Hosts
    BY SubnetAssumption
  <2> QED
    BY <1>2, <2>1, <2>2, SubnetAssumption
<1>5. q = n
  BY <1>2, <1>3, <1>4
<1>6. t = r
  <2> DEFINE p == n * Hosts
  <2>1. p \in Nat /\ a = p + t /\ a = p + r
    BY <1>2, <1>5, SubnetAssumption
  <2> QED
    BY <1>2, <2>1
<1> QED
  BY <1>5, <1>6 DEF q, t

LEMMA SameNet ==
  ASSUME NEW a \in Nat, NEW b \in Nat, D!Net(a) = D!Net(b)
  PROVE  a < b <=> a % Hosts < b % Hosts
<1> DEFINE p == D!Net(a) * Hosts  r == a % Hosts  t == b % Hosts
<1>1. p \in Nat /\ r \in Nat /\ t \in Nat /\ a = p + r /\ b = p + t
  <2>1. D!Net(a) \in Nat /\ r \in Nat /\ t \in Nat
    BY InSubnet, SubnetAssumption
  <2>2. p \in Nat
    BY <2>1, Subnets
  <2>3. a = D!Net(a) * Hosts + r /\ b = D!Net(b) * Hosts + t
    BY Divided
  <2> QED
    BY <2>1, <2>2, <2>3
<1> HIDE DEF p, r, t
<1>2. a < b <=> r < t
  BY <1>1
<1> QED
  BY <1>2 DEF r, t

LEMMA Times ==
  ASSUME NEW a \in Nat, NEW b \in Nat
  PROVE  a < b <=> a * Hosts < b * Hosts
  BY SubnetAssumption

(* In one subnet the order in memory is the order of the numbers, and what *)
(* lies between two of its addresses is in it.                             *)
LEMMA RawOrder ==
  ASSUME NEW a \in Nat, NEW b \in Nat, D!Net(a) = D!Net(b)
  PROVE  D!Raw(a) < D!Raw(b) <=> a < b
<1> DEFINE r == a % Hosts  t == b % Hosts  x == r * Hosts  y == t * Hosts
<1>1. r \in Nat /\ t \in Nat /\ D!Net(a) \in Nat
  BY InSubnet, SubnetAssumption
<1>2. D!Raw(a) = x + D!Net(a) /\ D!Raw(b) = y + D!Net(a)
  BY DEF D!Raw, D!Net
<1>3. x \in Nat /\ y \in Nat
  BY <1>1, SubnetAssumption
<1>4. r < t <=> x < y
  BY <1>1, Times
<1>5. a < b <=> r < t
  BY SameNet
<1> HIDE DEF x, y
<1>6. D!Raw(a) < D!Raw(b) <=> x < y
  BY <1>1, <1>2, <1>3
<1> QED
  BY <1>4, <1>5, <1>6

LEMMA Between ==
  ASSUME NEW s \in Nat, NEW e \in Nat, D!Net(s) = D!Net(e), NEW a \in s .. e
  PROVE  D!Net(a) = D!Net(s) /\ s % Hosts <= a % Hosts /\ a % Hosts <= e % Hosts
<1> DEFINE n == D!Net(s)  p == n * Hosts  r == a - p
<1>1. n \in Nat /\ p \in Nat
  BY InSubnet, Subnets
<1>2. s = p + (s % Hosts) /\ e = p + (e % Hosts)
  BY Divided
<1>3. s % Hosts \in 0 .. (Hosts - 1) /\ e % Hosts \in 0 .. (Hosts - 1)
  BY InSubnet
<1> HIDE DEF p
<1>4. r \in 0 .. (Hosts - 1) /\ s % Hosts <= r /\ r <= e % Hosts /\ a = p + r
  BY <1>1, <1>2, <1>3, SubnetAssumption
<1> HIDE DEF r
<1>5. D!Net(a) = n /\ a % Hosts = r
  BY <1>1, <1>4, SubnetOf DEF p
<1> QED
  BY <1>4, <1>5

LEMMA HostsOnly ==
  ASSUME NEW p, Hosting(p)
  PROVE  /\ \A a \in p.start .. p.end : D!Net(a) = D!Net(p.start) /\ a % Hosts \notin {0, Hosts - 1}
         /\ D!Net(p.end + 1) = D!Net(p.start)
<1>1. p.start \in Nat /\ p.end \in Nat
  BY DEF Hosting
<1>2. p.start % Hosts \in 1 .. (Hosts - 1) /\ p.end % Hosts \in 0 .. (Hosts - 2)
  <2>1. p.start % Hosts \in 0 .. (Hosts - 1) /\ p.end % Hosts \in 0 .. (Hosts - 1)
    BY <1>1, InSubnet
  <2> QED
    BY <2>1, SubnetAssumption DEF Hosting
<1>3. ASSUME NEW a \in p.start .. p.end
      PROVE  D!Net(a) = D!Net(p.start) /\ a % Hosts \notin {0, Hosts - 1}
  <2>1. D!Net(a) = D!Net(p.start) /\ p.start % Hosts <= a % Hosts /\ a % Hosts <= p.end % Hosts
    BY <1>1, Between DEF Hosting
  <2>2. a % Hosts \in 0 .. (Hosts - 1)
    BY <1>1, InSubnet
  <2> QED
    BY <1>2, <2>1, <2>2, SubnetAssumption
<1>4. D!Net(p.end + 1) = D!Net(p.start)
  <2> DEFINE n == D!Net(p.end)  r == (p.end % Hosts) + 1
  <2>1. n \in Nat /\ r \in 0 .. (Hosts - 1)
    BY <1>1, <1>2, InSubnet, SubnetAssumption
  <2>2. p.end + 1 = n * Hosts + r
    <3> DEFINE q == n * Hosts
    <3>1. p.end = q + (p.end % Hosts)
      BY <1>1, Divided
    <3>2. q \in Nat
      BY <2>1, Subnets
    <3> HIDE DEF q
    <3>3. p.end + 1 = q + r
      BY <1>1, <1>2, <3>1, <3>2
    <3> QED
      BY <3>3 DEF q
  <2> HIDE DEF r
  <2>3. D!Net(p.end + 1) = n
    BY <2>1, <2>2, SubnetOf
  <2> QED
    BY <2>3 DEF Hosting
<1> QED
  BY <1>3, <1>4

LEMMA MinOfTwo ==
  ASSUME NEW a \in Nat, NEW b \in Nat
  PROVE  D!Min({a, b}) = IF a <= b THEN a ELSE b
<1>1. \E x \in {a, b} : \A y \in {a, b} : x =< y
  OBVIOUS
<1> QED
  BY <1>1 DEF D!Min

(* dhcps_poll_set: whatever pool there was, the new one has hosts only, of *)
(* the subnet of the server, without the server, and not too many.         *)
Served(s, p) ==
  /\ Hosting(p) /\ D!Net(p.start) = D!Net(s) /\ s \notin p.start .. p.end
  /\ p.end - p.start + 1 <= MaxLease

LEMMA SideServed ==
  ASSUME NEW s \in Nat, s % Hosts \notin {0, Hosts - 1}, NEW p, ~D!Fits(p, s)
  PROVE  Served(s, D!PollSet(s, p))
<1> DEFINE n == D!Net(s)  q == n * Hosts  r == s % Hosts  lo == D!LargerSide(s)[1]
           hi == D!LargerSide(s)[2]  end == D!Min({hi, lo + MaxLease - 1})
<1>1. n \in Nat /\ q \in Nat /\ r \in 1 .. (Hosts - 2) /\ s = q + r
  <2>1. n \in Nat /\ r \in 0 .. (Hosts - 1)
    BY InSubnet
  <2>2. r \in 1 .. (Hosts - 2)
    BY <2>1, SubnetAssumption
  <2> QED
    BY <2>1, <2>2, Subnets, Divided
<1>2. \/ lo = q + 1 /\ hi = s - 1 /\ r > Hosts - 1 - r
      \/ lo = s + 1 /\ hi = q + Hosts - 2 /\ r <= Hosts - 1 - r
  <2> DEFINE bound0 == q + Hosts - 1
  <2>1. \/ s - q > bound0 - s /\ lo = q + 1 /\ hi = s - 1
        \/ ~(s - q > bound0 - s) /\ lo = s + 1 /\ hi = bound0 - 1
    BY DEF D!LargerSide
  <2> HIDE DEF q, r, lo, hi
  <2> QED
    BY <1>1, <2>1, SubnetAssumption
<1> HIDE DEF q, lo, hi
<1> HIDE DEF r
<1>3. lo \in Nat /\ hi \in Nat /\ lo <= hi /\ s \notin lo .. hi
  BY <1>1, <1>2, SubnetAssumption
<1>4. end \in lo .. hi /\ end - lo + 1 <= MaxLease
  <2>1. lo + MaxLease - 1 \in Nat
    BY <1>3, SubnetAssumption
  <2>2. end = IF hi <= lo + MaxLease - 1 THEN hi ELSE lo + MaxLease - 1
    BY <1>3, <2>1, MinOfTwo
  <2> HIDE DEF end
  <2> QED
    BY <1>3, <2>1, <2>2, SubnetAssumption
<1>5. D!PollSet(s, p) = [enable |-> TRUE, start |-> lo, end |-> end]
  BY DEF D!PollSet, lo, hi
<1> HIDE DEF end
<1>6. lo - q \in 1 .. (Hosts - 2) /\ end - q \in 1 .. (Hosts - 2)
  BY <1>1, <1>2, <1>3, <1>4, SubnetAssumption
<1>7. ASSUME NEW a \in Nat, a - q \in 1 .. (Hosts - 2)
      PROVE  D!Net(a) = n /\ a % Hosts \in 1 .. (Hosts - 2)
  <2>1. a = q + (a - q) /\ a - q \in 0 .. (Hosts - 1)
    BY <1>1, <1>7, SubnetAssumption
  <2>2. D!Net(q + (a - q)) = n /\ (q + (a - q)) % Hosts = a - q
    BY <1>1, <2>1, SubnetOf DEF q
  <2> QED
    BY <1>7, <2>1, <2>2
<1>8. D!Net(lo) = n /\ lo % Hosts \in 1 .. (Hosts - 2)
  BY <1>3, <1>6, <1>7
<1>9. D!Net(end) = n /\ end % Hosts \in 1 .. (Hosts - 2)
  BY <1>3, <1>4, <1>6, <1>7
<1>10. s \notin lo .. end
  BY <1>3, <1>4
<1> QED
  BY <1>3, <1>4, <1>5, <1>8, <1>9, <1>10, SubnetAssumption DEF Served, Hosting

LEMMA PollServed ==
  ASSUME NEW s \in Nat, s % Hosts \notin {0, Hosts - 1}, NEW p, p.enable => Hosting(p)
  PROVE  Served(s, D!PollSet(s, p))
<1>1. CASE D!Fits(p, s)
  <2>1. D!PollSet(s, p) = p /\ p.enable
    BY <1>1 DEF D!PollSet, D!Fits
  <2>2. Hosting(p)
    BY <2>1
  <2>3. D!Net(p.start) = D!Net(s) /\ p.end - p.start + 1 <= MaxLease /\ ~(p.start <= s /\ s <= p.end)
    BY <1>1 DEF D!Fits
  <2>4. s \notin p.start .. p.end
    BY <2>2, <2>3 DEF Hosting
  <2>5. Served(s, p)
    BY <2>2, <2>3, <2>4, Zenon DEF Served
  <2> QED
    BY <2>1, <2>5
<1> QED
  BY <1>1, SideServed

(* Induction over the numbers up to n, for a set.                          *)
LEMMA Smallest ==
  ASSUME NEW T \in SUBSET Nat, T # {}
  PROVE  \E x \in T : \A y \in T : x <= y
<1>1. PICK x \in T : \A y \in T : ~ (<<y, x>> \in OpToRel(<, Nat))
  BY NatLessThanWellFounded, WFMin
<1>2. ASSUME NEW y \in T
      PROVE  x <= y
  <2>1. x \in Nat /\ y \in Nat
    OBVIOUS
  <2>2. ~ (<<y, x>> \in OpToRel(<, Nat))
    BY <1>1
  <2>3. ~ (y < x)
    BY <2>1, <2>2 DEF OpToRel
  <2> QED
    BY <2>1, <2>3
<1> QED
  BY <1>2

LEMMA UpTo ==
  ASSUME NEW n \in Nat, NEW S, 0 \in S, \A i \in 0 .. (n - 1) : i \in S => i + 1 \in S
  PROVE  \A i \in 0 .. n : i \in S
<1> DEFINE T == {i \in 0 .. n : i \notin S}
<1>1. CASE T # {}
  <2>1. T \in SUBSET Nat
    OBVIOUS
  <2> HIDE DEF T
  <2>2. PICK x \in T : \A y \in T : x <= y
    BY <1>1, <2>1, Smallest
  <2>3. x \in 0 .. n /\ x \notin S /\ x # 0
    BY <2>2 DEF T
  <2>4. x - 1 \in T
    BY <2>3 DEF T
  <2> QED
    BY <2>2, <2>3, <2>4
<1>2. CASE T = {}
  BY <1>2
<1> QED
  BY <1>1, <1>2

LEMMA LeaseFacts ==
  ASSUME DhcpInv
  PROVE  /\ Hosting(pool) /\ pool.start \in Nat /\ pool.end \in Nat
         /\ \A l \in leases : /\ l.ip \in Nat /\ l.ip \in pool.start .. pool.end
                             /\ l.mac \in Macs /\ l.timer \in Nat \ {0}
<1>1. Hosting(pool) /\ pool.start \in Nat /\ pool.end \in Nat
  <2>1. Hosting(pool)
    BY DEF DhcpInv, PoolInv
  <2> QED
    BY <2>1 DEF Hosting
<1>2. \A l \in leases : l.ip \in pool.start .. pool.end /\ l.mac \in Macs /\ l.timer \in Nat \ {0}
  BY DEF DhcpInv, DhcpTyped, D!Addresses
<1> QED
  BY <1>1, <1>2

(* The leases are few, and node_insert_to_list can keep them in order.     *)
LEMMA FewLeases ==
  ASSUME DhcpInv
  PROVE  IsFiniteSet(leases)
<1> DEFINE f == [l \in leases |-> l.ip]
<1>1. IsFiniteSet(D!Addresses)
  BY FS_Interval DEF D!Addresses, DhcpInv, PoolInv, Hosting
<1>2. \A l \in leases : l.ip \in D!Addresses
  BY DEF DhcpInv, DhcpTyped
<1>3. f \in Injection(leases, D!Addresses)
  BY <1>2 DEF Injection, IsInjective, DhcpInv, OneLease
<1> QED
  BY <1>1, <1>3, FS_Injection

LEMMA Placed ==
  ASSUME DhcpInv, NEW n \in Nat, n = Cardinality(leases)
  PROVE  \E list \in [1 .. n -> leases] : \A i, j \in 1 .. n : i < j => list[i].ip < list[j].ip
<1> DEFINE Upto(l) == {k \in leases : k.ip <= l.ip}
           rank == [l \in leases |-> Cardinality(Upto(l))]
<1>1. IsFiniteSet(leases)
  BY FewLeases
<1>2. \A l \in leases : l.ip \in Nat
  BY LeaseFacts
<1>3. \A l \in leases : IsFiniteSet(Upto(l)) /\ Cardinality(Upto(l)) \in 1 .. n
  <2> SUFFICES ASSUME NEW l \in leases
               PROVE  IsFiniteSet(Upto(l)) /\ Cardinality(Upto(l)) \in 1 .. n
    OBVIOUS
  <2>1. Upto(l) \in SUBSET leases /\ l \in Upto(l)
    BY <1>2
  <2> HIDE DEF Upto
  <2>2. IsFiniteSet(Upto(l)) /\ Cardinality(Upto(l)) <= n
    BY <1>1, <2>1, FS_Subset
  <2>3. Cardinality(Upto(l)) \in Nat /\ Cardinality(Upto(l)) # 0
    BY <2>1, <2>2, FS_CardinalityType, FS_EmptySet
  <2> QED
    BY <2>2, <2>3
<1>4. ASSUME NEW k \in leases, NEW l \in leases, k.ip < l.ip
      PROVE  rank[k] < rank[l]
  <2>1. Upto(k) \in SUBSET Upto(l) /\ l \in Upto(l) /\ l \notin Upto(k)
    BY <1>2, <1>4
  <2> HIDE DEF Upto
  <2>2. Cardinality(Upto(k)) <= Cardinality(Upto(l)) /\ Cardinality(Upto(k)) # Cardinality(Upto(l))
    BY <1>3, <2>1, FS_Subset
  <2>3. Cardinality(Upto(k)) \in Nat /\ Cardinality(Upto(l)) \in Nat
    BY <1>3
  <2> QED
    BY <2>2, <2>3
<1>5. rank \in [leases -> 1 .. n]
  BY <1>3
<1> HIDE DEF rank, Upto
<1>6. rank \in Injection(leases, 1 .. n)
  <2>1. ASSUME NEW k \in leases, NEW l \in leases, k # l
        PROVE  rank[k] # rank[l]
    <3>1. k.ip < l.ip \/ l.ip < k.ip
      BY <1>2, <2>1 DEF DhcpInv, OneLease
    <3>2. rank[k] \in Nat /\ rank[l] \in Nat
      BY <1>5
    <3> QED
      BY <1>4, <3>1, <3>2
  <2> QED
    BY <1>5, <2>1 DEF Injection, IsInjective
<1>7. rank \in Surjection(leases, 1 .. n)
  <2>1. IsFiniteSet(1 .. n) /\ Cardinality(1 .. n) = n
    BY FS_Interval
  <2> QED
    BY <1>6, <2>1, FS_Injection
<1> DEFINE list == [i \in 1 .. n |-> CHOOSE l \in leases : rank[l] = i]
<1>8. \A i \in 1 .. n : list[i] \in leases /\ rank[list[i]] = i
  BY <1>7 DEF Surjection
<1>9. list \in [1 .. n -> leases]
  BY <1>8
<1> HIDE DEF list
<1>10. ASSUME NEW i \in 1 .. n, NEW j \in 1 .. n, i < j
       PROVE  list[i].ip < list[j].ip
  <2>1. list[i].ip \in Nat /\ list[j].ip \in Nat
    BY <1>2, <1>8
  <2>2. ~(list[j].ip < list[i].ip)
    BY <1>4, <1>8, <1>10
  <2>3. list[i] # list[j]
    BY <1>8, <1>10
  <2>4. list[i].ip # list[j].ip
    BY <1>8, <2>3 DEF DhcpInv, OneLease
  <2> QED
    BY <2>1, <2>2, <2>4
<1> QED
  BY <1>9, <1>10

LEMMA InOrder ==
  ASSUME DhcpInv, NEW n, n = Cardinality(leases)
  PROVE  /\ n \in Nat /\ D!ByAddress \in [1 .. n -> leases]
         /\ \A i, j \in 1 .. n : i < j => D!ByAddress[i].ip < D!ByAddress[j].ip
         /\ \A l \in leases : \E i \in 1 .. n : D!ByAddress[i] = l
<1>1. n \in Nat /\ IsFiniteSet(leases)
  BY FewLeases, FS_CardinalityType
<1>2. \A k, l \in leases : D!Raw(k.ip) < D!Raw(l.ip) <=> k.ip < l.ip
  <2> SUFFICES ASSUME NEW k \in leases, NEW l \in leases
               PROVE  D!Raw(k.ip) < D!Raw(l.ip) <=> k.ip < l.ip
    OBVIOUS
  <2>1. k.ip \in D!Addresses /\ l.ip \in D!Addresses /\ Hosting(pool)
    BY DEF DhcpInv, PoolInv, DhcpTyped
  <2>2. k.ip \in Nat /\ l.ip \in Nat
    BY <2>1 DEF Hosting, D!Addresses
  <2>3. D!Net(k.ip) = D!Net(l.ip)
    BY <2>1, HostsOnly DEF D!Addresses
  <2> QED
    BY <2>2, <2>3, RawOrder
<1>3. \E list \in [1 .. n -> leases] :
        \A i, j \in DOMAIN list : i < j => D!Raw(list[i].ip) < D!Raw(list[j].ip)
  <2>1. PICK list \in [1 .. n -> leases] : \A i, j \in 1 .. n : i < j => list[i].ip < list[j].ip
    BY <1>1, Placed
  <2>2. \A i, j \in DOMAIN list : i < j => D!Raw(list[i].ip) < D!Raw(list[j].ip)
    BY <1>2, <2>1
  <2> QED
    BY <2>2
<1> DEFINE order == D!ByAddress
<1>4. /\ order \in [1 .. n -> leases]
      /\ \A i, j \in DOMAIN order : i < j => D!Raw(order[i].ip) < D!Raw(order[j].ip)
  <2>1. order = CHOOSE list \in [1 .. n -> leases] :
                  \A i, j \in DOMAIN list : i < j => D!Raw(list[i].ip) < D!Raw(list[j].ip)
    BY DEF D!ByAddress, D!Cardinality, Cardinality
  <2> HIDE DEF order
  <2> QED
    BY <1>3, <2>1
<1> HIDE DEF order
<1>5. \A i, j \in 1 .. n : i < j => order[i].ip < order[j].ip
  BY <1>2, <1>4
<1>6. order \in Injection(1 .. n, leases)
  <2>1. ASSUME NEW i \in 1 .. n, NEW j \in 1 .. n, i # j
        PROVE  order[i] # order[j]
    <3>1. i < j \/ j < i
      BY <1>1, <2>1
    <3>2. order[i].ip \in Nat /\ order[j].ip \in Nat
      <4>1. order[i] \in leases /\ order[j] \in leases
        BY <1>4
      <4> QED
        BY <4>1, LeaseFacts
    <3> QED
      BY <1>5, <3>1, <3>2
  <2> QED
    BY <1>4, <2>1 DEF Injection, IsInjective
<1>7. order \in Surjection(1 .. n, leases)
  <2>1. IsFiniteSet(1 .. n) /\ Cardinality(1 .. n) = n
    BY <1>1, FS_Interval
  <2> QED
    BY <1>1, <1>6, <2>1, FS_Injection
<1>8. \A l \in leases : \E i \in 1 .. n : order[i] = l
  BY <1>7 DEF Surjection
<1> QED
  BY <1>1, <1>4, <1>5, <1>8 DEF order

-----------------------------------------------------------------------------
(* The loop of parse_msg: what it holds before each lease of the list, and *)
(* that the recursion has this value.                                      *)
Begin == [own |-> 0, plus |-> plus, hole |-> FALSE, first |-> pool.start]
IsWalk(f, m, n) ==
  f = [i \in 0 .. n |-> IF i = 0 THEN Begin ELSE D!Visit(m, f[i - 1], D!ByAddress[i])]
Walk(m) == CHOOSE f : IsWalk(f, m, Cardinality(leases))

LEMMA ScanWalks ==
  ASSUME NEW m
  PROVE  D!Scan(m) = Walk(m)[Cardinality(leases)]
  BY DEF D!Scan, Walk, IsWalk, Begin, D!Cardinality, Cardinality

LEMMA WalkExists ==
  ASSUME NEW m, NEW n \in Nat
  PROVE  \E f : IsWalk(f, m, n)
<1> DEFINE S == {i \in Nat : \E f : IsWalk(f, m, i)}
<1>1. 0 \in S
  <2>1. IsWalk([i \in 0 .. 0 |-> Begin], m, 0)
    BY DEF IsWalk
  <2> QED
    BY <2>1
<1>2. ASSUME NEW i \in 0 .. (n - 1), i \in S
      PROVE  i + 1 \in S
  <2>1. PICK f : IsWalk(f, m, i)
    BY <1>2
  <2> DEFINE g == [j \in 0 .. (i + 1) |-> IF j = i + 1 THEN D!Visit(m, f[i], D!ByAddress[i + 1]) ELSE f[j]]
  <2>2. \A j \in 0 .. i : f[j] = IF j = 0 THEN Begin ELSE D!Visit(m, f[j - 1], D!ByAddress[j])
    BY <2>1 DEF IsWalk
  <2>3. \A j \in 0 .. (i + 1) :
          g[j] = IF j = 0 THEN Begin ELSE D!Visit(m, g[j - 1], D!ByAddress[j])
    <3> SUFFICES ASSUME NEW j \in 0 .. (i + 1)
                 PROVE  g[j] = IF j = 0 THEN Begin ELSE D!Visit(m, g[j - 1], D!ByAddress[j])
      OBVIOUS
    <3>1. CASE j = 0
      BY <2>2, <3>1
    <3>2. CASE j \in 1 .. i
      <4>1. g[j] = f[j] /\ g[j - 1] = f[j - 1]
        BY <3>2
      <4> QED
        BY <2>2, <3>2, <4>1
    <3>3. CASE j = i + 1
      <4>1. g[j] = D!Visit(m, f[i], D!ByAddress[j]) /\ g[j - 1] = f[i]
        BY <3>3
      <4> QED
        BY <3>3, <4>1
    <3> QED
      BY <3>1, <3>2, <3>3
  <2>4. g = [j \in 0 .. (i + 1) |-> g[j]]
    OBVIOUS
  <2> HIDE DEF g
  <2>5. IsWalk(g, m, i + 1)
    BY <2>3, <2>4 DEF IsWalk
  <2> QED
    BY <2>5
<1> HIDE DEF S
<1>3. n \in S
  BY <1>1, <1>2, UpTo
<1> QED
  BY <1>3 DEF S

LEMMA Walks ==
  ASSUME NEW m, NEW n \in Nat, n = Cardinality(leases)
  PROVE  /\ Walk(m)[0] = Begin
         /\ \A i \in 1 .. n : Walk(m)[i] = D!Visit(m, Walk(m)[i - 1], D!ByAddress[i])
<1>1. IsWalk(Walk(m), m, n)
  BY WalkExists DEF Walk
<1> DEFINE f == Walk(m)
<1> HIDE DEF f
<1>2. \A i \in 0 .. n : f[i] = IF i = 0 THEN Begin ELSE D!Visit(m, f[i - 1], D!ByAddress[i])
  BY <1>1 DEF IsWalk, f
<1> QED
  BY <1>2 DEF f

(* What the loop knows after i leases, none of which was the sender's: its *)
(* two candidates are not in use so far, and nothing is free before the    *)
(* first hole.                                                             *)
Passed(i) == {D!ByAddress[j].ip : j \in 1 .. i}
Searching(at, i) ==
  /\ at \in [own : {0}, plus : Nat, hole : BOOLEAN, first : Nat]
  /\ at.plus \notin Passed(i) /\ at.plus \in {plus} \cup {a + 1 : a \in Passed(i)}
  /\ at.first \notin Passed(i) /\ pool.start <= at.first
  /\ \A a \in pool.start .. (at.first - 1) : a \in Passed(i)
  /\ at.hole => \E a \in Passed(i) : at.first < a
  /\ ~at.hole => \A a \in Passed(i) : a < at.first

LEMMA PassedNext ==
  ASSUME DhcpInv, NEW n \in Nat, n = Cardinality(leases), NEW i \in 1 .. n
  PROVE  /\ Passed(i) = Passed(i - 1) \cup {D!ByAddress[i].ip}
         /\ Passed(i - 1) \in SUBSET (pool.start .. pool.end)
         /\ D!ByAddress[i] \in leases /\ D!ByAddress[i].ip \in pool.start .. pool.end
         /\ \A a \in Passed(i - 1) : a < D!ByAddress[i].ip
<1> DEFINE order == D!ByAddress
<1>1. /\ order \in [1 .. n -> leases]
      /\ \A j, k \in 1 .. n : j < k => order[j].ip < order[k].ip
  BY InOrder
<1> HIDE DEF order
<1>2. \A j \in 1 .. n : order[j] \in leases /\ order[j].ip \in pool.start .. pool.end
  BY <1>1, LeaseFacts
<1>3. \A k : Passed(k) = {order[j].ip : j \in 1 .. k}
  BY DEF Passed, order
<1>4. Passed(i) = Passed(i - 1) \cup {order[i].ip}
  <2>1. 1 .. i = (1 .. (i - 1)) \cup {i}
    OBVIOUS
  <2> QED
    BY <1>3, <2>1
<1>5. \A a \in Passed(i - 1) : a \in pool.start .. pool.end /\ a < order[i].ip
  BY <1>1, <1>2, <1>3
<1> QED
  BY <1>2, <1>4, <1>5 DEF order

LEMMA VisitSearches ==
  ASSUME DhcpInv, NEW n \in Nat, n = Cardinality(leases), NEW i \in 1 .. n, NEW m, NEW at,
         Searching(at, i - 1), D!ByAddress[i].mac # m
  PROVE  Searching(D!Visit(m, at, D!ByAddress[i]), i)
<1> DEFINE l == D!ByAddress[i]  Before == Passed(i - 1)  next == D!Visit(m, at, l)
<1>1. /\ Passed(i) = Before \cup {l.ip} /\ Before \in SUBSET (pool.start .. pool.end)
      /\ l.ip \in pool.start .. pool.end /\ \A a \in Before : a < l.ip
  BY PassedNext
<1>2. pool.start \in Nat /\ pool.end \in Nat /\ pool.start <= pool.end /\ plus \in pool.start .. pool.end
  <2>1. Hosting(pool) /\ plus \in pool.start .. pool.end
    BY DEF DhcpInv, PoolInv, DhcpTyped, D!Addresses
  <2> QED
    BY <2>1 DEF Hosting
<1>3. /\ at \in [own : {0}, plus : Nat, hole : BOOLEAN, first : Nat]
      /\ at.plus \notin Before /\ at.plus \in {plus} \cup {a + 1 : a \in Before}
      /\ at.first \notin Before /\ pool.start <= at.first
      /\ \A a \in pool.start .. (at.first - 1) : a \in Before
      /\ at.hole => \E a \in Before : at.first < a
      /\ ~at.hole => \A a \in Before : a < at.first
  BY DEF Searching
<1>4. l.mac # m
  OBVIOUS
<1>5. at.first \in pool.start .. (pool.end + 1)
  <2>1. CASE at.first = pool.start
    BY <1>2, <2>1
  <2>2. CASE at.first # pool.start
    <3>1. at.first \in Nat /\ at.first - 1 \in pool.start .. (at.first - 1)
      BY <1>2, <1>3, <2>2
    <3>2. at.first - 1 \in pool.start .. pool.end
      BY <1>1, <1>3, <3>1
    <3> QED
      BY <1>2, <3>1, <3>2
  <2> QED
    BY <2>1, <2>2
<1> HIDE DEF l, Before
<1>6. D!Raw(at.first) < D!Raw(l.ip) <=> at.first < l.ip
  <2>1. Hosting(pool)
    BY LeaseFacts
  <2>2. D!Net(l.ip) = D!Net(pool.start)
    BY <1>1, <2>1, HostsOnly
  <2>3. D!Net(at.first) = D!Net(pool.start)
    <3>1. at.first \in pool.start .. pool.end \/ at.first = pool.end + 1
      BY <1>2, <1>5
    <3> QED
      BY <2>1, <3>1, HostsOnly
  <2>4. at.first \in Nat /\ l.ip \in Nat
    BY <1>1, <1>2, <1>5
  <2> QED
    BY <2>2, <2>3, <2>4, RawOrder
<1>7. next = [own   |-> 0,
              plus  |-> IF l.ip = at.plus THEN at.plus + 1 ELSE at.plus,
              hole  |-> at.hole \/ at.first < l.ip,
              first |-> IF at.hole \/ at.first < l.ip THEN at.first ELSE at.first + 1]
  <2>1. at.own = 0
    BY <1>3
  <2>2. next = [own   |-> 0,
                plus  |-> IF l.ip = at.plus THEN at.plus + 1 ELSE at.plus,
                hole  |-> at.hole \/ D!Raw(at.first) < D!Raw(l.ip),
                first |-> IF at.hole \/ D!Raw(at.first) < D!Raw(l.ip) THEN at.first ELSE at.first + 1]
    BY <1>4, <2>1 DEF D!Visit
  <2> HIDE DEF next
  <2> QED
    BY <1>6, <2>2
<1> HIDE DEF next
<1>8. next \in [own : {0}, plus : Nat, hole : BOOLEAN, first : Nat]
  <2>1. at.plus \in Nat /\ at.first \in Nat /\ at.hole \in BOOLEAN
    BY <1>3
  <2>2. (IF l.ip = at.plus THEN at.plus + 1 ELSE at.plus) \in Nat
    BY <2>1
  <2>3. (IF at.hole \/ at.first < l.ip THEN at.first ELSE at.first + 1) \in Nat
    BY <2>1
  <2> QED
    BY <1>7, <2>2, <2>3
<1> DEFINE Now == Before \cup {l.ip}
<1>9. next.plus \notin Now /\ next.plus \in {plus} \cup {a + 1 : a \in Now}
  <2>1. CASE l.ip = at.plus
    <3>1. next.plus = l.ip + 1
      BY <1>7, <2>1
    <3> QED
      BY <1>1, <1>2, <3>1
  <2>2. CASE l.ip # at.plus
    BY <1>3, <1>7, <2>2
  <2> QED
    BY <2>1, <2>2
<1>10. SUFFICES /\ next.first \notin Now /\ pool.start <= next.first
                /\ \A a \in pool.start .. (next.first - 1) : a \in Now
                /\ next.hole => \E a \in Now : next.first < a
                /\ ~next.hole => \A a \in Now : a < next.first
  <2>1. Passed(i) = Now
    BY <1>1
  <2> HIDE DEF Now
  <2> QED
    BY <1>8, <1>9, <2>1 DEF Searching, next, l
<1>11. CASE at.hole
  <2>1. next.hole /\ next.first = at.first
    BY <1>7, <1>11
  <2>2. PICK a \in Before : at.first < a
    BY <1>3, <1>11
  <2>3. at.first # l.ip
    BY <1>1, <1>2, <1>5, <2>2
  <2> QED
    BY <1>3, <2>1, <2>2, <2>3
<1>12. CASE ~at.hole /\ at.first < l.ip
  <2>1. next.hole /\ next.first = at.first
    BY <1>7, <1>12
  <2>2. at.first # l.ip
    BY <1>1, <1>2, <1>5, <1>12
  <2> QED
    BY <1>3, <1>12, <2>1, <2>2
<1>13. CASE ~at.hole /\ ~(at.first < l.ip)
  <2>1. ~next.hole /\ next.first = at.first + 1
    BY <1>7, <1>13
  <2>2. at.first = l.ip
    <3>1. CASE at.first > l.ip
      <4>1. l.ip \in pool.start .. (at.first - 1)
        BY <1>1, <1>2, <1>5, <3>1
      <4>2. l.ip \in Before
        BY <1>3, <4>1
      <4> QED
        BY <1>1, <1>2, <4>2
    <3> QED
      BY <1>1, <1>2, <1>5, <1>13, <3>1
  <2>3. \A a \in Now : a < next.first
    BY <1>1, <1>2, <1>3, <1>13, <2>1, <2>2
  <2>4. next.first \notin Now
    BY <1>1, <1>2, <2>1, <2>2
  <2>5. \A a \in pool.start .. (next.first - 1) : a \in Now
    BY <1>2, <1>3, <1>5, <2>1, <2>2
  <2>6. pool.start <= next.first
    BY <1>2, <1>5, <2>1
  <2> QED
    BY <2>1, <2>3, <2>4, <2>5, <2>6
<1> QED
  BY <1>11, <1>12, <1>13

LEMMA Searches ==
  ASSUME DhcpInv, NEW n \in Nat, n = Cardinality(leases), NEW m, NEW k \in 0 .. n,
         \A j \in 1 .. k : D!ByAddress[j].mac # m
  PROVE  Searching(Walk(m)[k], k)
<1> DEFINE S == {i \in Nat : Searching(Walk(m)[i], i)}
<1>1. 0 \in S
  <2>1. Walk(m)[0] = Begin
    BY Walks
  <2>2. Passed(0) = {}
    BY DEF Passed
  <2>3. plus \in Nat /\ pool.start \in Nat
    BY LeaseFacts DEF DhcpInv, DhcpTyped, D!Addresses
  <2>4. Searching(Begin, 0)
    BY <2>2, <2>3 DEF Searching, Begin
  <2> QED
    BY <2>1, <2>4
<1>2. ASSUME NEW i \in 0 .. (k - 1), i \in S
      PROVE  i + 1 \in S
  <2>1. i + 1 \in 1 .. n /\ i + 1 \in 1 .. k /\ i + 1 - 1 = i
    OBVIOUS
  <2>2. Walk(m)[i + 1] = D!Visit(m, Walk(m)[i], D!ByAddress[i + 1])
    BY <2>1, Walks
  <2>3. Searching(Walk(m)[i], i) /\ D!ByAddress[i + 1].mac # m
    BY <1>2, <2>1
  <2>4. Searching(D!Visit(m, Walk(m)[i], D!ByAddress[i + 1]), i + 1)
    BY <2>1, <2>3, VisitSearches
  <2> QED
    BY <2>2, <2>4
<1> HIDE DEF S
<1>3. k \in S
  BY <1>1, <1>2, UpTo
<1> QED
  BY <1>3 DEF S

(* What the loop finds for a station without a lease,                      *)
LEMMA ScanSearches ==
  ASSUME DhcpInv, NEW m, \A l \in leases : l.mac # m
  PROVE  LET s == D!Scan(m)
         IN  /\ s.own = 0 /\ {s.plus, s.first} \subseteq pool.start .. (pool.end + 1)
             /\ \A l \in leases : l.ip \notin {s.plus, s.first}
             /\ s.first > pool.end => pool.start .. pool.end \subseteq {l.ip : l \in leases}
<1> DEFINE n == Cardinality(leases)  s == D!Scan(m)  order == D!ByAddress
<1>1. /\ n \in Nat /\ order \in [1 .. n -> leases] /\ \A l \in leases : \E i \in 1 .. n : order[i] = l
  BY InOrder
<1>2. Searching(s, n)
  <2>1. s = Walk(m)[n]
    BY ScanWalks
  <2>2. \A j \in 1 .. n : order[j].mac # m
    BY <1>1
  <2> HIDE DEF n, s
  <2>3. Searching(Walk(m)[n], n)
    BY <1>1, <2>2, Searches DEF n
  <2> QED
    BY <2>1, <2>3
<1>3. Passed(n) = {l.ip : l \in leases}
  <2>1. Passed(n) = {order[j].ip : j \in 1 .. n}
    BY DEF Passed
  <2> HIDE DEF n, order
  <2> QED
    BY <1>1, <2>1
<1> HIDE DEF n, s, order
<1> DEFINE Before == Passed(n)
<1>4. /\ s \in [own : {0}, plus : Nat, hole : BOOLEAN, first : Nat]
      /\ s.plus \notin Before /\ s.plus \in {plus} \cup {a + 1 : a \in Before}
      /\ s.first \notin Before /\ pool.start <= s.first
      /\ \A a \in pool.start .. (s.first - 1) : a \in Before
  BY <1>2 DEF Searching
<1>5. Before \subseteq pool.start .. pool.end /\ pool.start \in Nat /\ pool.end \in Nat
  BY <1>3, LeaseFacts
<1>6. plus \in pool.start .. pool.end
  BY DEF DhcpInv, DhcpTyped, D!Addresses
<1> HIDE DEF Before
<1>7. s.plus \in pool.start .. (pool.end + 1)
  BY <1>4, <1>5, <1>6
<1>8. s.first \in pool.start .. (pool.end + 1)
  <2>1. CASE s.first - 1 \in Before
    BY <1>4, <1>5, <2>1
  <2>2. CASE s.first - 1 \notin Before
    BY <1>4, <1>5, <1>6, <2>2
  <2> QED
    BY <2>1, <2>2
<1>9. ASSUME s.first > pool.end
      PROVE  pool.start .. pool.end \subseteq Before
  BY <1>4, <1>5, <1>8, <1>9
<1>10. \A l \in leases : l.ip \in Before
  BY <1>3 DEF Before
<1>11. \A l \in leases : l.ip \notin {s.plus, s.first}
  BY <1>4, <1>10
<1>12. s.own = 0
  BY <1>4
<1> QED
  BY <1>3, <1>7, <1>8, <1>9, <1>11, <1>12 DEF Before, s

(* and for one that has one.                                               *)
LEMMA ScanFinds ==
  ASSUME DhcpInv, NEW l \in leases
  PROVE  D!Scan(l.mac).own = l.ip /\ D!Scan(l.mac).plus \in D!Addresses
<1> DEFINE n == Cardinality(leases)  order == D!ByAddress  m == l.mac  w == Walk(m)
<1>1. /\ n \in Nat /\ order \in [1 .. n -> leases] /\ \E i \in 1 .. n : order[i] = l
      /\ \A i, j \in 1 .. n : i < j => order[i].ip < order[j].ip
  BY InOrder
<1>2. PICK k \in 1 .. n : order[k] = l
  BY <1>1
<1> HIDE DEF n, order, m, w
<1>3. \A j \in 1 .. (k - 1) : order[j].mac # m /\ order[j].ip < l.ip
  <2> SUFFICES ASSUME NEW j \in 1 .. (k - 1)
               PROVE  order[j].mac # m /\ order[j].ip < l.ip
    OBVIOUS
  <2>1. order[j].ip < order[k].ip /\ order[j] \in leases
    BY <1>1
  <2>2. order[j].ip < l.ip /\ l.ip \in Nat /\ order[j].ip \in Nat
    BY <1>2, <2>1, LeaseFacts
  <2>3. order[j] # l
    BY <2>2
  <2> QED
    BY <2>1, <2>2, <2>3 DEF DhcpInv, OneLease, m
<1>4. Searching(w[k - 1], k - 1)
  <2>1. k - 1 \in 0 .. n
    BY <1>1
  <2> QED
    BY <1>1, <1>3, <2>1, Searches DEF n, order, w
<1>5. pool.start \in Nat /\ pool.end \in Nat /\ l.ip \in pool.start .. pool.end /\ l.ip # 0
  <2>1. Hosting(pool) /\ l.ip \in pool.start .. pool.end
    BY LeaseFacts
  <2>2. 0 % Hosts = 0
    BY SubnetAssumption
  <2>3. l.ip % Hosts # 0
    BY <2>1, HostsOnly
  <2> QED
    BY <2>1, <2>2, <2>3 DEF Hosting
<1>6. w[k - 1].own = 0 /\ w[k - 1].plus \in pool.start .. pool.end
  <2>1. w[k - 1].own = 0 /\ w[k - 1].plus \in {plus} \cup {a + 1 : a \in Passed(k - 1)}
    BY <1>4 DEF Searching
  <2>2. plus \in pool.start .. pool.end
    BY DEF DhcpInv, DhcpTyped, D!Addresses
  <2>3. \A a \in Passed(k - 1) : a \in pool.start .. pool.end /\ a < l.ip
    BY <1>1, <1>2, PassedNext DEF n, order
  <2> QED
    BY <1>5, <2>1, <2>2, <2>3
<1> DEFINE found == [w[k - 1] EXCEPT !.own = l.ip]
<1>7. found.own = l.ip /\ found.plus = w[k - 1].plus
  <2>1. w[k - 1] \in [own : {0}, plus : Nat, hole : BOOLEAN, first : Nat]
    BY <1>4 DEF Searching
  <2> QED
    BY <2>1
<1>8. w[k] = found
  <2>1. w[k] = D!Visit(m, w[k - 1], l)
    BY <1>1, <1>2, Walks DEF n, order, w
  <2> QED
    BY <1>6, <2>1 DEF D!Visit, m
<1> HIDE DEF found
<1> DEFINE S == {i \in Nat : w[k + i] = found}
<1>9. \A i \in 0 .. (n - k) : i \in S
  <2>1. 0 \in S
    BY <1>1, <1>8
  <2>2. ASSUME NEW i \in 0 .. (n - k - 1), i \in S
        PROVE  i + 1 \in S
    <3>1. k + i + 1 \in 1 .. n /\ k + i + 1 - 1 = k + i /\ k + (i + 1) = k + i + 1
      BY <1>1
    <3>2. w[k + i + 1] = D!Visit(m, w[k + i], order[k + i + 1])
      BY <1>1, <3>1, Walks DEF n, order, w
    <3>3. w[k + i] = found
      BY <2>2
    <3>4. D!Visit(m, found, order[k + i + 1]) = found
      BY <1>5, <1>7 DEF D!Visit
    <3> QED
      BY <1>1, <3>1, <3>2, <3>3, <3>4
  <2>3. n - k \in Nat
    BY <1>1
  <2> HIDE DEF S
  <2> QED
    BY <2>1, <2>2, <2>3, UpTo
<1>10. w[n] = found
  <2>1. n - k \in 0 .. (n - k) /\ k + (n - k) = n
    BY <1>1
  <2>2. w[k + (n - k)] = found
    BY <1>9, <2>1
  <2> QED
    BY <2>1, <2>2
<1>11. D!Scan(m) = found
  BY <1>10, ScanWalks DEF w, n
<1> QED
  BY <1>6, <1>7, <1>11 DEF m, D!Addresses

(* The address for a station without a lease is nobody's; that it is above *)
(* the pool's end means that the pool is used up.                          *)
LEMMA AboveEnd ==
  ASSUME Hosting(pool), NEW a \in pool.start .. (pool.end + 1)
  PROVE  D!Raw(a) > D!Raw(pool.end) <=> a > pool.end
<1>1. pool.start \in Nat /\ pool.end \in Nat /\ pool.start <= pool.end
  BY DEF Hosting
<1>2. a \in Nat
  BY <1>1
<1>3. a \in pool.start .. pool.end \/ a = pool.end + 1
  BY <1>1
<1>4. D!Net(a) = D!Net(pool.end)
  BY <1>3, HostsOnly DEF Hosting
<1>5. D!Raw(pool.end) < D!Raw(a) <=> pool.end < a
  BY <1>1, <1>2, <1>4, RawOrder
<1>6. D!Raw(a) \in Int /\ D!Raw(pool.end) \in Int
  <2>1. \A b \in Nat : D!Raw(b) \in Int
    <3> SUFFICES ASSUME NEW b \in Nat PROVE D!Raw(b) \in Int
      OBVIOUS
    <3>1. D!Net(b) \in Nat /\ b % Hosts \in Nat
      BY InSubnet, SubnetAssumption
    <3>2. (b % Hosts) * Hosts \in Nat
      BY <3>1, Subnets
    <3>3. D!Raw(b) = (b % Hosts) * Hosts + D!Net(b)
      BY DEF D!Raw, D!Net
    <3> QED
      BY <3>1, <3>2, <3>3
  <2> QED
    BY <1>1, <1>2, <2>1
<1> QED
  BY <1>1, <1>2, <1>5, <1>6

LEMMA Fresh ==
  ASSUME DhcpInv, NEW m \in Macs, \A l \in leases : l.mac # m
  PROVE  LET ip == D!Chosen(m, D!Scan(m))
         IN  /\ ip \in pool.start .. (pool.end + 1) /\ \A l \in leases : l.ip # ip
             /\ D!Refused(ip) <=> ip > pool.end
             /\ ip > pool.end => pool.start .. pool.end \subseteq {l.ip : l \in leases}
<1> DEFINE s == D!Scan(m)  ip == D!Chosen(m, s)
<1>1. /\ s.plus \in pool.start .. (pool.end + 1) /\ s.first \in pool.start .. (pool.end + 1)
      /\ \A l \in leases : l.ip # s.plus /\ l.ip # s.first
      /\ s.first > pool.end => pool.start .. pool.end \subseteq {l.ip : l \in leases}
  BY ScanSearches
<1> HIDE DEF s
<1>2. Hosting(pool) /\ pool.start \in Nat /\ pool.end \in Nat /\ pool.start <= pool.end
  BY LeaseFacts DEF Hosting
<1>3. ip = IF s.plus > pool.end THEN s.first
           ELSE IF leases = {} /\ ~declined THEN pool.start ELSE s.plus
  <2>1. D!Raw(s.plus) > D!Raw(pool.end) <=> s.plus > pool.end
    BY <1>1, <1>2, AboveEnd
  <2> QED
    BY <2>1 DEF D!Chosen, D!NextAddress
<1> HIDE DEF ip
<1>4. ip \in pool.start .. (pool.end + 1)
  BY <1>1, <1>2, <1>3
<1>5. D!Refused(ip) <=> ip > pool.end
  BY <1>2, <1>4, AboveEnd DEF D!Refused
<1>6. \A l \in leases : l.ip # ip
  BY <1>1, <1>3
<1>7. ip > pool.end => pool.start .. pool.end \subseteq {l.ip : l \in leases}
  BY <1>1, <1>2, <1>3
<1> QED
  BY <1>4, <1>5, <1>6, <1>7 DEF ip, s

LeaseOf(m, ip) == [ip |-> ip, mac |-> m, timer |-> LeaseTicks]
Leases == [ip : D!Addresses, mac : Macs, timer : Nat \ {0}]

(* What parse_msg makes of a message: for a station with a lease           *)
LEMMA AnswerKnown ==
  ASSUME DhcpInv, NEW l \in leases, NEW ask
  PROVE  LET a == D!Answer(l.mac, ask)
         IN  /\ a.kind = D!Verdict(ask, TRUE, l.ip) /\ a.ip = l.ip /\ a.plus \in D!Addresses
             /\ a.leases = (leases \ {l}) \cup
                           IF a.kind \in {"offer", "ack"} THEN {LeaseOf(l.mac, l.ip)} ELSE {}
<1> DEFINE m == l.mac  s == D!Scan(m)
<1>1. s.own = l.ip /\ s.plus \in D!Addresses
  BY ScanFinds
<1>2. l.ip # 0
  <2>1. Hosting(pool) /\ l.ip \in pool.start .. pool.end
    BY LeaseFacts
  <2>2. 0 % Hosts = 0
    BY SubnetAssumption
  <2>3. l.ip % Hosts # 0
    BY <2>1, HostsOnly
  <2> QED
    BY <2>2, <2>3
<1>3. {k \in leases : k.mac = m} = {l}
  BY DEF DhcpInv, OneLease
<1> HIDE DEF m, s
<1>4. D!Answer(m, ask) =
        [kind |-> D!Verdict(ask, TRUE, l.ip), ip |-> l.ip, plus |-> s.plus,
         leases |-> IF D!Verdict(ask, TRUE, l.ip) \in {"offer", "ack"}
                    THEN (leases \ {l}) \cup {LeaseOf(m, l.ip)} ELSE leases \ {l}]
  BY <1>1, <1>2, <1>3 DEF D!Answer, LeaseOf, s
<1> DEFINE a == D!Answer(m, ask)  ruling == D!Verdict(ask, TRUE, l.ip)
<1> HIDE DEF ruling
<1>5. /\ a.kind = ruling /\ a.ip = l.ip /\ a.plus = s.plus
      /\ a.leases = IF ruling \in {"offer", "ack"}
                    THEN (leases \ {l}) \cup {LeaseOf(m, l.ip)} ELSE leases \ {l}
  BY <1>4 DEF ruling
<1> HIDE DEF a
<1>6. a.leases = (leases \ {l}) \cup
                 IF a.kind \in {"offer", "ack"} THEN {LeaseOf(m, l.ip)} ELSE {}
  BY <1>5
<1> QED
  BY <1>1, <1>5, <1>6 DEF a, ruling, m

(* and for one without.                                                    *)
LEMMA AnswerUnknown ==
  ASSUME DhcpInv, NEW m \in Macs, \A l \in leases : l.mac # m, NEW ask
  PROVE  LET a == D!Answer(m, ask)
         IN  /\ a.plus \in D!Addresses
             /\ \/ /\ a.kind = "refuse" /\ a.leases = leases
                   /\ D!Addresses \subseteq {l.ip : l \in leases}
                \/ /\ a.kind = D!Verdict(ask, FALSE, a.ip) /\ a.ip \in D!Addresses
                   /\ \A l \in leases : l.ip # a.ip
                   /\ a.leases = leases \cup
                                 IF a.kind \in {"offer", "ack"} THEN {LeaseOf(m, a.ip)} ELSE {}
<1> DEFINE s == D!Scan(m)  ip == D!Chosen(m, s)
<1>1. s.own = 0
  BY ScanSearches
<1>2. /\ ip \in pool.start .. (pool.end + 1) /\ \A l \in leases : l.ip # ip
      /\ D!Refused(ip) <=> ip > pool.end
      /\ ip > pool.end => pool.start .. pool.end \subseteq {l.ip : l \in leases}
  BY Fresh
<1>3. pool.start \in Nat /\ pool.end \in Nat /\ pool.start <= pool.end
  BY LeaseFacts DEF Hosting
<1>4. leases \ {l \in leases : l.mac = m} = leases
  OBVIOUS
<1> DEFINE kind == IF D!Refused(ip) THEN "refuse" ELSE D!Verdict(ask, FALSE, ip)
<1> HIDE DEF s, ip
<1>5. D!Answer(m, ask) =
        [kind |-> kind, ip |-> ip, plus |-> IF D!Refused(ip) THEN pool.start ELSE D!After(ip),
         leases |-> IF kind \in {"offer", "ack"} THEN leases \cup {LeaseOf(m, ip)} ELSE leases]
  BY <1>1, <1>4 DEF D!Answer, LeaseOf, s, ip
<1> DEFINE a == D!Answer(m, ask)
<1>6. CASE D!Refused(ip)
  <2>1. a.kind = "refuse" /\ a.leases = leases /\ a.plus = pool.start
    BY <1>5, <1>6
  <2>2. D!Addresses \subseteq {l.ip : l \in leases}
    BY <1>2, <1>6 DEF D!Addresses
  <2>3. pool.start \in D!Addresses
    BY <1>3 DEF D!Addresses
  <2> HIDE DEF a
  <2>4. a.plus \in D!Addresses
    BY <2>1, <2>3
  <2> QED
    BY <2>1, <2>2, <2>4 DEF a
<1>7. CASE ~D!Refused(ip)
  <2>1. kind = D!Verdict(ask, FALSE, ip)
    BY <1>7
  <2> HIDE DEF kind
  <2>2. /\ a.kind = kind /\ a.ip = ip /\ a.plus = D!After(ip)
        /\ a.leases = IF kind \in {"offer", "ack"} THEN leases \cup {LeaseOf(m, ip)} ELSE leases
    BY <1>5, <1>7
  <2>3. ip \in D!Addresses
    BY <1>2, <1>3, <1>7 DEF D!Addresses
  <2>4. D!After(ip) \in D!Addresses
    BY <1>3, <2>3 DEF D!After, D!Addresses
  <2> HIDE DEF a
  <2>5. a.leases = leases \cup IF a.kind \in {"offer", "ack"} THEN {LeaseOf(m, a.ip)} ELSE {}
    BY <2>2
  <2> QED
    BY <1>2, <2>1, <2>2, <2>3, <2>4, <2>5 DEF a
<1> QED
  BY <1>6, <1>7

(* After a message the list is sound, and only the sender's lease changed. *)
LEMMA AnswerKeeps ==
  ASSUME DhcpInv, NEW m \in Macs, NEW ask
  PROVE  LET a == D!Answer(m, ask)
         IN  /\ a.plus \in D!Addresses /\ a.leases \in SUBSET Leases
             /\ \A k, l \in a.leases : k # l => k.ip # l.ip /\ k.mac # l.mac
             /\ \A l \in leases : l.mac # m => l \in a.leases
             /\ a.kind \in {"offer", "ack"} => a.ip \in Nat /\ LeaseOf(m, a.ip) \in a.leases
<1> DEFINE a == D!Answer(m, ask)  given == a.kind \in {"offer", "ack"}
           N == IF given THEN {LeaseOf(m, a.ip)} ELSE {}
<1>1. /\ leases \in SUBSET Leases
      /\ \A k, l \in leases : k # l => k.ip # l.ip /\ k.mac # l.mac
  BY DEF DhcpInv, DhcpTyped, OneLease, Leases
<1>2. \A ip \in D!Addresses : LeaseOf(m, ip) \in Leases
  BY SubnetAssumption DEF LeaseOf, Leases
<1>3. \A ip : LeaseOf(m, ip).mac = m /\ LeaseOf(m, ip).ip = ip
  BY DEF LeaseOf
<1>4. D!Addresses \subseteq Nat
  BY LeaseFacts DEF D!Addresses
<1>5. CASE \E l \in leases : l.mac = m
  <2>1. PICK l \in leases : l.mac = m
    BY <1>5
  <2>2. /\ a.ip = l.ip /\ a.plus \in D!Addresses /\ a.leases = (leases \ {l}) \cup N
    BY <2>1, AnswerKnown
  <2> HIDE DEF a, LeaseOf, Leases
  <2>3. a.ip \in D!Addresses
    BY <1>1, <2>2 DEF Leases
  <2>4. \A k \in leases \ {l} : k.ip # a.ip /\ k.mac # m
    BY <1>1, <2>1, <2>2
  <2>5. \A k \in leases : k.mac # m => k \in a.leases
    BY <2>1, <2>2
  <2>6. a.leases \in SUBSET Leases
    BY <1>1, <1>2, <2>2, <2>3
  <2>7. \A j, k \in a.leases : j # k => j.ip # k.ip /\ j.mac # k.mac
    BY <1>1, <1>3, <2>2, <2>4
  <2>8. given => a.ip \in Nat /\ LeaseOf(m, a.ip) \in a.leases
    BY <1>4, <2>2, <2>3
  <2> QED
    BY <2>2, <2>5, <2>6, <2>7, <2>8 DEF a
<1>6. CASE ~\E l \in leases : l.mac = m
  <2>1. \A l \in leases : l.mac # m
    BY <1>6
  <2>2. /\ a.plus \in D!Addresses
        /\ \/ a.kind = "refuse" /\ a.leases = leases
           \/ a.ip \in D!Addresses /\ (\A l \in leases : l.ip # a.ip) /\ a.leases = leases \cup N
    BY <2>1, AnswerUnknown
  <2> HIDE DEF a, LeaseOf, Leases
  <2>3. CASE a.kind = "refuse" /\ a.leases = leases
    <3>1. ~given
      BY <2>3
    <3> QED
      BY <1>1, <2>2, <2>3, <3>1 DEF a
  <2>4. CASE a.ip \in D!Addresses /\ (\A l \in leases : l.ip # a.ip) /\ a.leases = leases \cup N
    <3>1. a.leases \in SUBSET Leases
      BY <1>1, <1>2, <2>4
    <3>2. \A j, k \in a.leases : j # k => j.ip # k.ip /\ j.mac # k.mac
      BY <1>1, <1>3, <2>1, <2>4
    <3>3. given => a.ip \in Nat /\ LeaseOf(m, a.ip) \in a.leases
      BY <1>4, <2>4
    <3>4. \A l \in leases : l \in a.leases
      BY <2>4
    <3> QED
      BY <2>2, <3>1, <3>2, <3>3, <3>4 DEF a
  <2> QED
    BY <2>2, <2>3, <2>4
<1> QED
  BY <1>5, <1>6

(* So it is for the stations if the sender is served: it is free of its    *)
(* address, or the server has dropped its lease, or it has one that lasts. *)
Lasting(m, L, b) == \E l \in L : l.mac = m /\ l.ip = b.ip /\ b.left <= l.timer

LEMMA HandleKeeps ==
  ASSUME DhcpInv, NEW m \in Macs, NEW ask, NEW d, D!Handle(D!Answer(m, ask), d),
         bound' \in [Macs -> [ip : Nat, left : 0 .. LeaseTicks]],
         \A k \in Macs \ {m} : bound'[k] = bound[k] /\ (k \in dropped' <=> k \in dropped),
         bound'[m].ip = 0 \/ m \in dropped' \/ Lasting(m, D!Answer(m, ask).leases, bound'[m])
  PROVE  DhcpInv'
<1> DEFINE a == D!Answer(m, ask)
<1>1. /\ leases' = a.leases /\ plus' = a.plus /\ pool' = pool /\ server' = server
  BY DEF D!Handle
<1>2. /\ a.plus \in D!Addresses /\ a.leases \in SUBSET Leases
      /\ \A k, l \in a.leases : k # l => k.ip # l.ip /\ k.mac # l.mac
      /\ \A l \in leases : l.mac # m => l \in a.leases
  BY AnswerKeeps
<1>3. bound'[m].ip = 0 \/ m \in dropped' \/ Lasting(m, a.leases, bound'[m])
  OBVIOUS
<1> HIDE DEF a
<1>4. PoolInv'
  BY <1>1 DEF DhcpInv, PoolInv, Hosting, D!Net
<1>5. DhcpTyped'
  BY <1>1, <1>2 DEF DhcpTyped, Leases, D!Addresses
<1>6. OneLease'
  BY <1>1, <1>2 DEF OneLease
<1>7. \A k \in Macs \ dropped' : bound'[k].ip # 0 => Lasting(k, leases', bound'[k])
  <2> SUFFICES ASSUME NEW k \in Macs, k \notin dropped', bound'[k].ip # 0
               PROVE  Lasting(k, leases', bound'[k])
    OBVIOUS
  <2>1. CASE k = m
    BY <1>1, <1>3, <2>1
  <2>2. CASE k # m
    <3>1. bound'[k] = bound[k] /\ k \notin dropped
      BY <2>2
    <3>2. PICK l \in leases : l.mac = k /\ l.ip = bound[k].ip /\ bound[k].left <= l.timer
      BY <3>1 DEF DhcpInv, BoundLeased
    <3>3. l \in leases'
      BY <1>1, <1>2, <2>2, <3>2
    <3> QED
      BY <3>1, <3>2, <3>3 DEF Lasting
  <2> QED
    BY <2>1, <2>2
<1>8. BoundLeased'
  BY <1>7 DEF BoundLeased, Lasting
<1> QED
  BY <1>4, <1>5, <1>6, <1>8 DEF DhcpInv

LEMMA BoundTyped ==
  ASSUME DhcpInv
  PROVE  /\ bound \in [Macs -> [ip : Nat, left : 0 .. LeaseTicks]]
         /\ \A m \in Macs, ip \in Nat :
              /\ [bound EXCEPT ![m] = [ip |-> ip, left |-> LeaseTicks]]
                   \in [Macs -> [ip : Nat, left : 0 .. LeaseTicks]]
              /\ [bound EXCEPT ![m] = [ip |-> 0, left |-> 0]]
                   \in [Macs -> [ip : Nat, left : 0 .. LeaseTicks]]
<1>1. bound \in [Macs -> [ip : Nat, left : 0 .. LeaseTicks]]
  BY DEF DhcpInv, DhcpTyped
<1>2. \A ip \in Nat : [ip |-> ip, left |-> LeaseTicks] \in [ip : Nat, left : 0 .. LeaseTicks]
  BY SubnetAssumption
<1>3. [ip |-> 0, left |-> 0] \in [ip : Nat, left : 0 .. LeaseTicks]
  BY SubnetAssumption
<1> QED
  BY <1>1, <1>2, <1>3

LEMMA AckKeeps ==
  ASSUME DhcpInv, NEW m \in Macs, NEW ask, D!Handle(D!Answer(m, ask), FALSE),
         D!Answer(m, ask).kind = "ack", D!SendAck(m, D!Answer(m, ask))
  PROVE  DhcpInv'
<1> DEFINE a == D!Answer(m, ask)
<1>1. bound' = [bound EXCEPT ![m] = [ip |-> a.ip, left |-> LeaseTicks]] /\ dropped' = dropped \ {m}
  BY DEF D!SendAck
<1>2. a.ip \in Nat /\ LeaseOf(m, a.ip) \in a.leases
  BY AnswerKeeps
<1> HIDE DEF a
<1>3. bound' \in [Macs -> [ip : Nat, left : 0 .. LeaseTicks]]
  BY <1>1, <1>2, BoundTyped
<1>4. bound'[m] = [ip |-> a.ip, left |-> LeaseTicks] /\ \A k \in Macs \ {m} : bound'[k] = bound[k]
  BY <1>1, BoundTyped
<1>5. Lasting(m, a.leases, bound'[m])
  <2> DEFINE l == LeaseOf(m, a.ip)
  <2>1. l.mac = m /\ l.ip = a.ip /\ l.timer = LeaseTicks
    BY DEF LeaseOf
  <2> HIDE DEF l
  <2>2. bound'[m].ip = l.ip /\ bound'[m].left <= l.timer
    BY <1>4, <2>1, SubnetAssumption
  <2>3. l \in a.leases
    BY <1>2 DEF l
  <2> QED
    BY <2>1, <2>2, <2>3 DEF Lasting
<1>6. \A k \in Macs \ {m} : k \in dropped' <=> k \in dropped
  BY <1>1
<1> QED
  BY <1>3, <1>4, <1>5, <1>6, HandleKeeps DEF a

LEMMA UnboundKeeps ==
  ASSUME DhcpInv, NEW m \in Macs, NEW ask, NEW d, D!Handle(D!Answer(m, ask), d), D!Unbound(m)
  PROVE  DhcpInv'
<1>1. bound' = [bound EXCEPT ![m] = [ip |-> 0, left |-> 0]] /\ dropped' = dropped \ {m}
  BY DEF D!Unbound
<1>2. bound' \in [Macs -> [ip : Nat, left : 0 .. LeaseTicks]]
  BY <1>1, BoundTyped
<1>3. bound'[m].ip = 0 /\ \A k \in Macs \ {m} : bound'[k] = bound[k]
  BY <1>1, BoundTyped
<1>4. \A k \in Macs \ {m} : k \in dropped' <=> k \in dropped
  BY <1>1
<1> QED
  BY <1>2, <1>3, <1>4, HandleKeeps

(* The answer is lost, or none that binds.                                 *)
LEMMA LostKeeps ==
  ASSUME DhcpInv, NEW m \in Macs, NEW ask, NEW d, D!Handle(D!Answer(m, ask), d),
         bound' = bound, dropped' = dropped,
         bound[m].ip = 0 \/ m \in dropped \/ Lasting(m, D!Answer(m, ask).leases, bound[m])
  PROVE  DhcpInv'
<1>1. bound' \in [Macs -> [ip : Nat, left : 0 .. LeaseTicks]]
  BY BoundTyped
<1> QED
  BY <1>1, HandleKeeps

LEMMA DiscoverKeeps ==
  ASSUME DhcpInv, NEW m \in Macs, D!Discover(m)
  PROVE  DhcpInv'
<1> DEFINE ask == D!Asking("discover", 0)
<1>1. bound[m].ip = 0 /\ D!Handle(D!Answer(m, ask), FALSE) /\ bound' = bound /\ dropped' = dropped
  BY DEF D!Discover
<1> HIDE DEF ask
<1> QED
  BY <1>1, LostKeeps

LEMMA RequestKeeps ==
  ASSUME DhcpInv, NEW m \in Macs, NEW want, D!Request(m, want)
  PROVE  DhcpInv'
<1> DEFINE ask == D!Asking("request", want)  a == D!Answer(m, ask)
<1>1. /\ bound[m].ip = 0 /\ D!Handle(a, FALSE)
      /\ D!Lost \/ (a.kind = "ack" /\ D!SendAck(m, a))
  BY DEF D!Request
<1> HIDE DEF ask
<1>2. CASE D!Lost
  BY <1>1, <1>2, LostKeeps DEF D!Lost
<1>3. CASE a.kind = "ack" /\ D!SendAck(m, a)
  BY <1>1, <1>3, AckKeeps
<1> QED
  BY <1>1, <1>2, <1>3

(* A renewal of an address the server knows is acknowledged: if the        *)
(* acknowledgement is lost, the lease lasts all the same.                  *)
LEMMA RenewKeeps ==
  ASSUME DhcpInv, NEW m \in Macs, D!Renew(m)
  PROVE  DhcpInv'
<1> DEFINE ask == D!Asking("renew", bound[m].ip)  a == D!Answer(m, ask)
<1>1. /\ bound[m].ip # 0 /\ D!Handle(a, FALSE)
      /\ D!Lost \/ IF a.kind = "ack" THEN D!SendAck(m, a) ELSE D!Unbound(m)
  BY DEF D!Renew
<1>2. m \in dropped \/ Lasting(m, a.leases, bound[m])
  <2> SUFFICES ASSUME m \notin dropped PROVE Lasting(m, a.leases, bound[m])
    OBVIOUS
  <2>1. PICK l \in leases : l.mac = m /\ l.ip = bound[m].ip
    BY <1>1 DEF DhcpInv, BoundLeased
  <2>2. D!Verdict(ask, TRUE, l.ip) = "ack"
    BY <2>1 DEF D!Verdict, D!Asking
  <2> HIDE DEF ask
  <2>3. a.kind = "ack" /\ a.ip = l.ip
    BY <2>1, <2>2, AnswerKnown
  <2>4. LeaseOf(m, a.ip) \in a.leases
    BY <2>3, AnswerKeeps
  <2> HIDE DEF a
  <2> DEFINE k == LeaseOf(m, a.ip)
  <2>5. k.mac = m /\ k.ip = bound[m].ip /\ k.timer = LeaseTicks
    BY <2>1, <2>3 DEF LeaseOf
  <2>6. bound[m].left \in 0 .. LeaseTicks
    BY BoundTyped
  <2> HIDE DEF k
  <2>7. bound[m].left <= k.timer
    BY <2>5, <2>6, SubnetAssumption
  <2> QED
    BY <2>4, <2>5, <2>7 DEF Lasting, k
<1> HIDE DEF ask
<1>3. CASE D!Lost
  BY <1>1, <1>2, <1>3, LostKeeps DEF D!Lost
<1>4. CASE a.kind = "ack" /\ D!SendAck(m, a)
  BY <1>1, <1>4, AckKeeps
<1>5. CASE D!Unbound(m)
  BY <1>1, <1>5, UnboundKeeps
<1> QED
  BY <1>1, <1>3, <1>4, <1>5

LEMMA GiveBackKeeps ==
  ASSUME DhcpInv, NEW m \in Macs, NEW d, D!GiveBack(m, d)
  PROVE  DhcpInv'
<1> DEFINE ask == D!Asking("giveback", 0)
<1>1. D!Handle(D!Answer(m, ask), d) /\ D!Unbound(m)
  BY DEF D!GiveBack
<1> HIDE DEF ask
<1> QED
  BY <1>1, UnboundKeeps

(* The coarse timer: a lease outlasts what its station counts on unless    *)
(* it is the oldest of too many.                                           *)
LEMMA TickKeeps ==
  ASSUME DhcpInv, D!Tick
  PROVE  DhcpInv'
<1> DEFINE live == D!Expired(D!Aged(leases))
           kept == IF D!Cardinality(live) > MaxStations THEN live \ {D!Oldest(live)} ELSE live
           stay == [m \in Macs |-> IF bound[m].left > 1 THEN [bound[m] EXCEPT !.left = @ - 1]
                                   ELSE [ip |-> 0, left |-> 0]]
<1>1. /\ leases' = kept /\ bound' = stay /\ pool' = pool /\ server' = server /\ plus' = plus
      /\ dropped' = {m \in Macs : stay[m].ip # 0 /\
                       (m \in dropped \/ \E l \in live \ kept : l.mac = m)}
  BY DEF D!Tick
<1>2. kept \subseteq live
  OBVIOUS
<1> HIDE DEF kept
<1>3. \A l : l \in live <=> \E k \in leases : l = [k EXCEPT !.timer = @ - 1] /\ l.timer # 0
  BY DEF D!Expired, D!Aged
<1> HIDE DEF live
<1>4. \A k \in leases : k \in Leases
  BY DEF DhcpInv, DhcpTyped, Leases
<1>5. \A k \in leases : LET l == [k EXCEPT !.timer = @ - 1]
                        IN  l.ip = k.ip /\ l.mac = k.mac /\ l.timer = k.timer - 1
  BY <1>4 DEF Leases
<1>6. \A l \in live : \E k \in leases : l = [k EXCEPT !.timer = @ - 1] /\ l.ip = k.ip /\ l.mac = k.mac
  <2> SUFFICES ASSUME NEW l \in live
               PROVE  \E k \in leases : l = [k EXCEPT !.timer = @ - 1] /\ l.ip = k.ip /\ l.mac = k.mac
    OBVIOUS
  <2>1. PICK k \in leases : l = [k EXCEPT !.timer = @ - 1]
    BY <1>3
  <2>2. l.ip = k.ip /\ l.mac = k.mac
    BY <1>5, <2>1
  <2> QED
    BY <2>1, <2>2
<1>7. live \in SUBSET Leases
  <2> SUFFICES ASSUME NEW l \in live PROVE l \in Leases
    OBVIOUS
  <2>1. PICK k \in leases : l = [k EXCEPT !.timer = @ - 1] /\ l.timer # 0
    BY <1>3
  <2>2. k.timer \in Nat \ {0} /\ k.ip \in D!Addresses /\ k.mac \in Macs
    BY <1>4 DEF Leases
  <2>3. l.timer \in Nat \ {0}
    BY <1>5, <2>1, <2>2
  <2> QED
    BY <1>4, <2>1, <2>3 DEF Leases
<1>8. \A j, l \in live : j # l => j.ip # l.ip /\ j.mac # l.mac
  BY <1>6 DEF DhcpInv, OneLease
<1>9. stay \in [Macs -> [ip : Nat, left : 0 .. LeaseTicks]]
  <2> SUFFICES ASSUME NEW m \in Macs PROVE stay[m] \in [ip : Nat, left : 0 .. LeaseTicks]
    OBVIOUS
  <2>1. bound[m] \in [ip : Nat, left : 0 .. LeaseTicks]
    BY BoundTyped
  <2>2. CASE bound[m].left > 1
    <3>1. stay[m] = [bound[m] EXCEPT !.left = @ - 1]
      BY <2>2
    <3>2. bound[m].left - 1 \in 0 .. LeaseTicks
      BY <2>1, <2>2, SubnetAssumption
    <3> QED
      BY <2>1, <3>1, <3>2
  <2>3. CASE ~(bound[m].left > 1)
    BY <2>3, SubnetAssumption
  <2> QED
    BY <2>2, <2>3
<1>10. \A m \in Macs \ dropped' : bound'[m].ip # 0 => Lasting(m, leases', bound'[m])
  <2> SUFFICES ASSUME NEW m \in Macs, m \notin dropped', bound'[m].ip # 0
               PROVE  Lasting(m, leases', bound'[m])
    OBVIOUS
  <2>1. m \notin dropped /\ \A l \in live \ kept : l.mac # m
    BY <1>1
  <2>2. bound[m] \in [ip : Nat, left : 0 .. LeaseTicks]
    BY BoundTyped
  <2>3. bound[m].left > 1 /\ bound'[m] = [bound[m] EXCEPT !.left = @ - 1]
    BY <1>1
  <2>4. bound'[m].ip = bound[m].ip /\ bound'[m].left = bound[m].left - 1
    BY <2>2, <2>3
  <2>5. PICK k \in leases : k.mac = m /\ k.ip = bound[m].ip /\ bound[m].left <= k.timer
    BY <2>1, <2>4 DEF DhcpInv, BoundLeased
  <2> DEFINE l == [k EXCEPT !.timer = @ - 1]
  <2>6. l.mac = m /\ l.ip = bound[m].ip /\ l.timer = k.timer - 1 /\ k.timer \in Nat
    BY <1>4, <1>5, <2>5 DEF Leases
  <2>7. bound'[m].left <= l.timer /\ l.timer # 0
    BY <2>2, <2>3, <2>4, <2>5, <2>6, SubnetAssumption
  <2>8. l \in live
    BY <1>3, <2>7
  <2> HIDE DEF l
  <2>9. l \in leases'
    BY <1>1, <2>1, <2>6, <2>8
  <2> QED
    BY <2>4, <2>6, <2>7, <2>9 DEF Lasting
<1> HIDE DEF stay
<1>11. PoolInv'
  BY <1>1 DEF DhcpInv, PoolInv, Hosting, D!Net
<1>12. DhcpTyped'
  BY <1>1, <1>2, <1>7, <1>9 DEF DhcpInv, DhcpTyped, Leases, D!Addresses
<1>13. OneLease'
  BY <1>1, <1>2, <1>8 DEF OneLease
<1>14. BoundLeased'
  BY <1>10 DEF BoundLeased, Lasting
<1> QED
  BY <1>11, <1>12, <1>13, <1>14 DEF DhcpInv

LEMMA RestartKeeps ==
  ASSUME DhcpInv, D!Restart
  PROVE  DhcpInv'
<1>1. /\ leases' = {} /\ pool' = D!PollSet(server, pool) /\ plus' = pool'.start
      /\ dropped' = {m \in Macs : bound[m].ip # 0} /\ server' = server /\ bound' = bound
  BY DEF D!Restart
<1>2. server \in ApIps /\ Hosting(pool)
  BY DEF DhcpInv, PoolInv
<1>3. Hosting(pool')
  <2>1. server \in Nat /\ server % Hosts \notin {0, Hosts - 1}
    BY <1>2, SubnetAssumption
  <2> QED
    BY <1>1, <1>2, <2>1, PollServed DEF Served
<1>4. PoolInv'
  BY <1>1, <1>2, <1>3 DEF PoolInv, Hosting, D!Net
<1>5. plus' \in pool'.start .. pool'.end
  BY <1>1, <1>3 DEF Hosting
<1>6. DhcpTyped'
  BY <1>1, <1>5 DEF DhcpInv, DhcpTyped, D!Addresses
<1> QED
  BY <1>1, <1>4, <1>6 DEF DhcpInv, OneLease, BoundLeased

LEMMA LeasesBegin == D!Init => DhcpInv
<1> SUFFICES ASSUME D!Init PROVE DhcpInv
  OBVIOUS
<1> DEFINE p == D!PollSet(DefaultIp, D!NoPool)
<1>1. server \in ApIps /\ pool = D!PollSet(server, p) /\ leases = {} /\ plus = pool.start
      /\ bound = [m \in Macs |-> [ip |-> 0, left |-> 0]]
  BY DEF D!Init
<1>2. /\ server \in Nat /\ server % Hosts \notin {0, Hosts - 1}
      /\ DefaultIp \in Nat /\ DefaultIp % Hosts \notin {0, Hosts - 1}
  BY <1>1, SubnetAssumption
<1>3. Hosting(p)
  <2>1. ~D!NoPool.enable
    BY DEF D!NoPool
  <2> QED
    BY <1>2, <2>1, PollServed DEF Served
<1> HIDE DEF p
<1>4. Hosting(pool)
  BY <1>1, <1>2, <1>3, PollServed DEF Served
<1>5. plus \in pool.start .. pool.end
  BY <1>1, <1>4 DEF Hosting
<1>6. bound \in [Macs -> [ip : Nat, left : 0 .. LeaseTicks]]
  BY <1>1, SubnetAssumption
<1> QED
  BY <1>1, <1>4, <1>5, <1>6 DEF DhcpInv, PoolInv, DhcpTyped, OneLease, BoundLeased, D!Addresses

LEMMA LeasesNext == DhcpInv /\ (D!Next \/ UNCHANGED dv) => DhcpInv'
<1>1. ASSUME DhcpInv, D!Next PROVE DhcpInv'
  <2>1. ASSUME NEW m \in Macs, D!Discover(m) PROVE DhcpInv'
    BY <1>1, <2>1, DiscoverKeeps
  <2>2. ASSUME NEW m \in Macs, D!Renew(m) PROVE DhcpInv'
    BY <1>1, <2>2, RenewKeeps
  <2>3. ASSUME NEW m \in Macs, D!Request(m, offer[m]) PROVE DhcpInv'
    BY <1>1, <2>3, RequestKeeps
  <2>4. ASSUME NEW m \in Macs, NEW d \in BOOLEAN, D!GiveBack(m, d) PROVE DhcpInv'
    BY <1>1, <2>4, GiveBackKeeps
  <2>5. CASE D!Tick
    BY <1>1, <2>5, TickKeeps
  <2>6. CASE D!Restart
    BY <1>1, <2>6, RestartKeeps
  <2> QED
    BY <1>1, <2>1, <2>2, <2>3, <2>4, <2>5, <2>6 DEF D!Next
<1>2. ASSUME DhcpInv, UNCHANGED dv PROVE DhcpInv'
  <2>1. /\ server' = server /\ pool' = pool /\ leases' = leases /\ plus' = plus
        /\ bound' = bound /\ dropped' = dropped
    BY <1>2 DEF dv
  <2> QED
    BY <1>2, <2>1 DEF DhcpInv, PoolInv, Hosting, DhcpTyped, OneLease, BoundLeased, D!Addresses, D!Net
<1> QED
  BY <1>1, <1>2

LEMMA CountUp ==
  ASSUME NEW a \in Nat, NEW b \in Nat, a <= b
  PROVE  IsFiniteSet(a .. b) /\ Cardinality(a .. b) \in Nat /\ Cardinality(a .. b) = b - a + 1
<1>1. IsFiniteSet(a .. b) /\ Cardinality(a .. b) = IF a > b THEN 0 ELSE b - a + 1
  BY FS_Interval
<1> QED
  BY <1>1

LEMMA SameCount == \A S : D!Cardinality(S) = Cardinality(S)
BY DEF D!Cardinality, Cardinality

(* The pool for whatever address the server is started on next,            *)
LEMMA PoolIsSound ==
  ASSUME DhcpInv
  PROVE  D!PoolSound
<1> SUFFICES ASSUME NEW s \in {i \in 1 .. (2 * Hosts - 2) : i % Hosts \notin {0, Hosts - 1}},
                    NEW p, p = D!PollSet(s, pool)
             PROVE  /\ s \notin p.start .. p.end /\ D!Cardinality(p.start .. p.end) \in 1 .. MaxLease
                    /\ \A a \in p.start .. p.end : D!Net(a) = D!Net(s) /\ a % Hosts \notin {0, Hosts - 1}
  BY Zenon DEF D!PoolSound
<1>1. s \in Nat
  BY SubnetAssumption
<1>2. Served(s, p)
  <2>1. Hosting(pool)
    BY LeaseFacts
  <2> QED
    BY <1>1, <2>1, PollServed
<1>3. /\ Hosting(p) /\ D!Net(p.start) = D!Net(s) /\ s \notin p.start .. p.end
      /\ p.end - p.start + 1 <= MaxLease
  BY <1>2 DEF Served
<1>4. p.start \in Nat /\ p.end \in Nat /\ p.start <= p.end
  BY <1>3 DEF Hosting
<1>5. D!Cardinality(p.start .. p.end) = p.end - p.start + 1
  BY <1>4, CountUp, SameCount
<1>6. D!Cardinality(p.start .. p.end) \in 1 .. MaxLease
  BY <1>3, <1>4, <1>5, SubnetAssumption
<1>7. \A a \in p.start .. p.end : D!Net(a) = D!Net(s) /\ a % Hosts \notin {0, Hosts - 1}
  BY <1>3, HostsOnly
<1> QED
  BY <1>3, <1>6, <1>7

(* the addresses in use,                                                   *)
LEMMA AddressesApart ==
  ASSUME DhcpInv
  PROVE  D!NoSharedAddress
<1> SUFFICES ASSUME NEW m \in Macs, m \notin dropped, NEW n \in Macs, n \notin dropped,
                    m # n, bound[m].ip # 0, bound[m].ip = bound[n].ip
             PROVE  FALSE
  BY DEF D!NoSharedAddress
<1>1. PICK l \in leases : l.mac = m /\ l.ip = bound[m].ip
  BY DEF DhcpInv, BoundLeased
<1>2. PICK k \in leases : k.mac = n /\ k.ip = bound[n].ip
  BY DEF DhcpInv, BoundLeased
<1> QED
  BY <1>1, <1>2 DEF DhcpInv, OneLease

(* and the one a station is offered.                                       *)
LEMMA FreeIsOffered ==
  ASSUME DhcpInv
  PROVE  D!FreeAddressOffered
<1> SUFFICES ASSUME NEW m \in Macs, ~(\E l \in leases : l.mac = m),
                    Cardinality({l.ip : l \in leases} \cap D!Addresses) < Cardinality(D!Addresses),
                    NEW a, a = D!Answer(m, D!Asking("discover", 0))
             PROVE  a.kind = "offer" /\ ~\E l \in leases : l.ip = a.ip
  BY DEF D!FreeAddressOffered, D!Cardinality, Cardinality
<1> DEFINE ask == D!Asking("discover", 0)
<1>1. D!Verdict(ask, FALSE, a.ip) = "offer"
  BY DEF D!Verdict, D!Asking
<1>2. \A l \in leases : l.mac # m
  OBVIOUS
<1> HIDE DEF ask
<1>3. \/ a.kind = "refuse" /\ D!Addresses \subseteq {l.ip : l \in leases}
      \/ a.kind = D!Verdict(ask, FALSE, a.ip) /\ \A l \in leases : l.ip # a.ip
  BY <1>2, AnswerUnknown DEF ask
<1>4. CASE D!Addresses \subseteq {l.ip : l \in leases}
  <2>1. {l.ip : l \in leases} \cap D!Addresses = D!Addresses
    BY <1>4
  <2>2. Cardinality(D!Addresses) \in Nat
    <3>1. pool.start \in Nat /\ pool.end \in Nat /\ pool.start <= pool.end
      BY LeaseFacts DEF Hosting
    <3> QED
      BY <3>1, CountUp DEF D!Addresses
  <2> QED
    BY <2>1, <2>2
<1> QED
  BY <1>1, <1>3, <1>4

(* A station that asks gets an address of a sound pool, for itself alone,  *)
(* as long as one is free, unless the server dropped a lease: it restarted *)
(* or had too many.                                                        *)
THEOREM LeasesHold == ApSpec => []LeasesSound
<1>1. ApInit => DhcpInv
  BY LeasesBegin DEF ApInit
<1>2. DhcpInv /\ [ApNext]_<<running, vars, av, dv, fv, pv, xv, rv>> => DhcpInv'
  <2>1. ApNext => D!Next \/ UNCHANGED dv
    BY DEF ApNext
  <2>2. UNCHANGED <<running, vars, av, dv, fv, pv, xv, rv>> => UNCHANGED dv
    OBVIOUS
  <2> QED
    BY <2>1, <2>2, LeasesNext
<1>3. DhcpInv => LeasesSound
  BY PoolIsSound, AddressesApart, FreeIsOffered DEF LeasesSound, D!LeasesSound
<1> QED
  BY <1>1, <1>2, <1>3, PTL DEF ApSpec
=============================================================================
