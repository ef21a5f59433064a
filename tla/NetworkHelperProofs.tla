-------------------------- MODULE NetworkHelperProofs --------------------------
(***************************************************************************)
(* The route plan, the helper that installs it and the packets sent by it, *)
(* for addresses of any width and any number of threads, resources and     *)
(* envelopes.  The first part shows what collapse_addresses computes: the  *)
(* prefixes collapse into the whole address space if and only if their     *)
(* addresses are all there are.  The second shows the helper's promises,   *)
(* the third those to a packet.                                            *)
(***************************************************************************)
EXTENDS NetworkHelper, PacketPath, Integers, NaturalsInduction, FiniteSetTheorems, TLAPS

-----------------------------------------------------------------------------
(* A set of numbers has a least one: induction, for a set.                 *)
LEMMA LeastNat ==
  ASSUME NEW T, T \subseteq Nat, T # {}
  PROVE  \E x \in T : \A y \in T : x <= y
<1>1. PICK x \in T : \A y \in T : ~(<<y, x>> \in OpToRel(<, Nat))
  BY NatLessThanWellFounded, WFMin
<1>2. ASSUME NEW y \in T, y < x PROVE <<y, x>> \in OpToRel(<, Nat)
  <2>1. <<y, x>> \in Nat \X Nat /\ <<y, x>>[1] < <<y, x>>[2]
    BY <1>2
  <2> QED
    BY <2>1 DEF OpToRel
<1>3. ASSUME NEW y \in T PROVE ~(y < x)
  BY <1>1, <1>2, Zenon
<1> QED
  BY <1>3

(* One bit more halves a network.                                          *)
LEMMA SizeHalves ==
  /\ \A l \in 0..Width : Size(l) \in Nat \ {0}
  /\ Size(Width) = 1
  /\ Size(0) = 2^Width
  /\ \A l \in 0..(Width - 1) : Size(l) = 2 * Size(l + 1)
<1>1. ASSUME NEW l \in 0..Width PROVE Size(l) \in Nat \ {0}
  <2>1. Width - l \in 0..Width
    BY RouteAssumption
  <2> QED
    BY <2>1, PowerAssumption DEF Size
<1>2. Size(Width) = 1 /\ Size(0) = 2^Width
  <2>1. Width - Width = 0 /\ Width - 0 = Width
    BY RouteAssumption
  <2> QED
    BY <2>1, PowerAssumption DEF Size
<1>3. ASSUME NEW l \in 0..(Width - 1) PROVE Size(l) = 2 * Size(l + 1)
  <2> DEFINE n == Width - (l + 1)
  <2>1. n \in 0..Width /\ Width - l = n + 1
    BY RouteAssumption
  <2>2. 2^(n + 1) = 2 * 2^n
    BY <2>1, PowerAssumption
  <2> QED
    BY <2>1, <2>2 DEF Size
<1> QED
  BY <1>1, <1>2, <1>3

(* A shorter prefix is as large as a number of longer ones.                *)
LEMMA SizeDivides ==
  ASSUME NEW j \in 0..Width, NEW i \in 0..j
  PROVE  \E k \in Nat \ {0} : Size(i) = k * Size(j)
<1> DEFINE Divides(d) == \E k \in Nat \ {0} : Size(j - d) = k * Size(j)
           T == {d \in 0..j : ~Divides(d)}
<1>1. j \in Nat /\ i \in Nat /\ j <= Width /\ i <= j /\ Width \in Nat
  BY RouteAssumption
<1>2. Divides(0)
  <2>1. j - 0 = j /\ Size(j) = 1 * Size(j)
    BY <1>1, SizeHalves
  <2> QED
    BY <2>1
<1>3. ASSUME NEW d \in 1..j, Divides(d - 1) PROVE Divides(d)
  <2>1. PICK k \in Nat \ {0} : Size(j - (d - 1)) = k * Size(j)
    BY <1>3
  <2>2. j - d \in 0..(Width - 1) /\ (j - d) + 1 = j - (d - 1)
    BY <1>1
  <2>3. Size(j - d) = 2 * Size((j - d) + 1)
    BY <2>2, SizeHalves
  <2>4. Size(j - d) = 2 * (k * Size(j))
    BY <2>1, <2>2, <2>3
  <2>5. Size(j) \in Nat
    BY SizeHalves
  <2>6. Size(j - d) = (2 * k) * Size(j) /\ 2 * k \in Nat \ {0}
    BY <2>4, <2>5
  <2> QED
    BY <2>6
<1> HIDE DEF Divides
<1>4. T = {}
  <2> SUFFICES ASSUME T # {} PROVE FALSE
    OBVIOUS
  <2> T \subseteq Nat
    BY <1>1
  <2>1. PICK d \in T : \A e \in T : d <= e
    <3> HIDE DEF T
    <3> QED
      BY LeastNat
  <2>2. d \in 1..j
    BY <1>2, <2>1
  <2>3. d - 1 \in 0..j /\ d - 1 \notin T
    BY <2>1, <2>2
  <2> QED
    BY <1>3, <2>1, <2>2, <2>3
<1>5. Divides(j - i)
  BY <1>1, <1>4
<1>6. j - (j - i) = i
  BY <1>1
<1> QED
  BY <1>5, <1>6 DEF Divides

(* Two multiples of a size with one address in both blocks are one.        *)
LEMMA SameBlock ==
  ASSUME NEW S \in Nat \ {0}, NEW p \in Nat, NEW q \in Nat, NEW a \in Nat,
         p * S <= a, a <= p * S + S - 1, q * S <= a, a <= q * S + S - 1
  PROVE  p = q
OBVIOUS

(* Multiples of a size are a size apart, or not in order.                  *)
LEMMA Apart ==
  ASSUME NEW S \in Nat \ {0}, NEW p \in Nat, NEW q \in Nat, p * S < q * S
  PROVE  p * S + S <= q * S
<1>1. p + 1 <= q
  OBVIOUS
<1>2. (p + 1) * S <= q * S
  BY <1>1
<1> QED
  BY <1>2

-----------------------------------------------------------------------------
(* Clearing the host bits leaves a multiple of the size, and clearing them *)
(* twice is clearing them once.                                            *)
LEMMA NetworkAligned ==
  ASSUME NEW p \in Prefix
  PROVE  /\ Network(p) \in Prefix /\ Network(p).len = p.len
         /\ \E q \in Nat : Network(p).addr = q * Size(p.len)
<1>1. p.addr \in Nat /\ p.len \in 0..Width /\ p.addr \in Address
  BY RouteAssumption, PowerAssumption DEF Prefix, Address
<1>2. Size(p.len) \in Nat \ {0}
  BY <1>1, SizeHalves
<1>3. /\ p.addr = Size(p.len) * (p.addr \div Size(p.len)) + (p.addr % Size(p.len))
      /\ p.addr % Size(p.len) \in Nat /\ p.addr \div Size(p.len) \in Nat
  BY <1>1, <1>2
<1>4. p.addr - (p.addr % Size(p.len)) = (p.addr \div Size(p.len)) * Size(p.len)
  BY <1>1, <1>2, <1>3
<1>5. p.addr - (p.addr % Size(p.len)) \in Address
  <2>1. /\ p.addr - (p.addr % Size(p.len)) \in Nat
        /\ p.addr - (p.addr % Size(p.len)) <= p.addr
    BY <1>1, <1>2, <1>3
  <2> QED
    BY <1>1, <2>1, RouteAssumption, PowerAssumption DEF Address
<1>6. /\ Network(p) = [p EXCEPT !.addr = p.addr - (p.addr % Size(p.len))]
      /\ p = [addr |-> p.addr, len |-> p.len]
  BY DEF Network, Prefix
<1> QED
  BY <1>1, <1>3, <1>4, <1>5, <1>6 DEF Prefix

LEMMA AlignedIsNetwork ==
  ASSUME NEW n \in Prefix, NEW q \in Nat, n.addr = q * Size(n.len)
  PROVE  Network(n) = n /\ n \in Networks
<1>1. n.addr \in Nat /\ n.len \in 0..Width
  BY RouteAssumption, PowerAssumption DEF Prefix, Address
<1>2. Size(n.len) \in Nat \ {0}
  BY <1>1, SizeHalves
<1>3. n.addr % Size(n.len) = 0
  BY <1>1, <1>2, SMTT(30)
<1>4. Network(n) = [n EXCEPT !.addr = n.addr - 0]
  BY <1>3 DEF Network
<1>5. Network(n) = n
  BY <1>1, <1>4 DEF Prefix
<1> QED
  BY <1>5 DEF Networks

(* A network is a block of its size, at a multiple of it.                  *)
LEMMA NetworkBlock ==
  ASSUME NEW n \in Networks
  PROVE  /\ n \in Prefix /\ n.addr \in Nat /\ n.len \in 0..Width
         /\ Size(n.len) \in Nat \ {0}
         /\ \E q \in Nat : n.addr = q * Size(n.len)
         /\ Network(n) = n
         /\ Addresses(n) = n.addr..(n.addr + Size(n.len) - 1)
<1>1. PICK p \in Prefix : n = Network(p)
  BY DEF Networks
<1>2. n \in Prefix /\ n.len = p.len
  BY <1>1, NetworkAligned
<1>3. PICK q \in Nat : n.addr = q * Size(n.len)
  BY <1>1, <1>2, NetworkAligned
<1>4. Network(n) = n
  BY <1>2, <1>3, AlignedIsNetwork
<1>5. n.addr \in Nat /\ n.len \in 0..Width
  BY <1>2, RouteAssumption, PowerAssumption DEF Prefix, Address
<1>6. Size(n.len) \in Nat \ {0}
  BY <1>5, SizeHalves
<1>7. Addresses(n) = n.addr..(n.addr + Size(n.len) - 1)
  BY <1>4 DEF Addresses
<1> QED
  BY <1>2, <1>3, <1>4, <1>5, <1>6, <1>7

LEMMA AddressesOfNetwork ==
  ASSUME NEW p \in Prefix
  PROVE  Network(p) \in Networks /\ Addresses(Network(p)) = Addresses(p)
<1>1. Network(p) \in Networks
  BY DEF Networks
<1>2. Network(Network(p)) = Network(p)
  BY <1>1, NetworkBlock
<1> QED
  BY <1>1, <1>2 DEF Addresses

(* Two networks of one length that share an address are one.               *)
LEMMA OneNetwork ==
  ASSUME NEW m \in Networks, NEW n \in Networks, m.len = n.len,
         NEW a \in Addresses(m), a \in Addresses(n)
  PROVE  m = n
<1>1. PICK p \in Nat : m.addr = p * Size(m.len)
  BY NetworkBlock
<1>2. PICK q \in Nat : n.addr = q * Size(m.len)
  BY NetworkBlock
<1>3. /\ Size(m.len) \in Nat \ {0}
      /\ a \in m.addr..(m.addr + Size(m.len) - 1) /\ a \in n.addr..(n.addr + Size(m.len) - 1)
      /\ m.addr \in Nat /\ n.addr \in Nat
  BY NetworkBlock
<1>4. p = q
  BY <1>1, <1>2, <1>3, SameBlock
<1>5. m.addr = n.addr
  BY <1>1, <1>2, <1>4
<1>6. m \in Prefix /\ n \in Prefix
  BY NetworkBlock
<1> QED
  BY <1>5, <1>6 DEF Prefix

(* Every network is part of the address space, which is one itself.        *)
LEMMA NetworkInSpace ==
  ASSUME NEW n \in Networks
  PROVE  Addresses(n) \subseteq Address
<1>1. /\ n \in Prefix /\ n.addr \in Nat /\ n.len \in 0..Width /\ Size(n.len) \in Nat \ {0}
      /\ Addresses(n) = n.addr..(n.addr + Size(n.len) - 1)
  BY NetworkBlock
<1>2. PICK q \in Nat : n.addr = q * Size(n.len)
  BY NetworkBlock
<1>3. 0 \in 0..n.len
  BY <1>1
<1>4. PICK k \in Nat \ {0} : Size(0) = k * Size(n.len)
  BY <1>1, <1>3, SizeDivides
<1>5. 2^Width = k * Size(n.len) /\ 2^Width \in Nat
  BY <1>4, SizeHalves, RouteAssumption, PowerAssumption
<1>6. n.addr < 2^Width
  BY <1>1, <1>5 DEF Prefix, Address
<1>7. q * Size(n.len) + Size(n.len) <= k * Size(n.len)
  BY <1>1, <1>2, <1>5, <1>6, Apart
<1>8. n.addr + Size(n.len) <= 2^Width
  BY <1>2, <1>5, <1>7
<1> QED
  BY <1>1, <1>5, <1>8 DEF Address

Whole == [addr |-> 0, len |-> 0]

LEMMA WholeIsNetwork == Whole \in Networks /\ Addresses(Whole) = Address
<1>1. Whole \in Prefix
  <2>1. 0 \in Address /\ 0 \in 0..Width
    BY RouteAssumption, PowerAssumption DEF Address
  <2> QED
    BY <2>1 DEF Whole, Prefix
<1>2. Size(0) \in Nat
  BY SizeHalves, RouteAssumption
<1>3. Whole.addr = 0 * Size(Whole.len)
  BY <1>2 DEF Whole
<1>4. Whole \in Networks
  BY <1>1, <1>3, AlignedIsNetwork
<1>5. Addresses(Whole) = 0..(0 + Size(0) - 1)
  BY <1>4, NetworkBlock DEF Whole
<1> QED
  BY <1>2, <1>4, <1>5, SizeHalves DEF Address

-----------------------------------------------------------------------------
(* The halves of a network are networks, and have its addresses between    *)
(* them.                                                                   *)
LEMMA Halves ==
  ASSUME NEW n \in Networks, n.len < Width
  PROVE  /\ Lower(n) \in Networks /\ Upper(n) \in Networks
         /\ Size(n.len) = 2 * Size(n.len + 1)
         /\ Addresses(Lower(n)) = n.addr..(n.addr + Size(n.len + 1) - 1)
         /\ Addresses(Upper(n)) = (n.addr + Size(n.len + 1))..(n.addr + Size(n.len) - 1)
         /\ Addresses(n) = Addresses(Lower(n)) \cup Addresses(Upper(n))
<1> DEFINE H == Size(n.len + 1)
<1>1. /\ n \in Prefix /\ n.addr \in Nat /\ n.len \in 0..Width
      /\ Addresses(n) = n.addr..(n.addr + Size(n.len) - 1)
  BY NetworkBlock
<1>2. PICK q \in Nat : n.addr = q * Size(n.len)
  BY NetworkBlock
<1>3. n.len + 1 \in 0..Width /\ n.len \in 0..(Width - 1)
  BY <1>1, RouteAssumption
<1>4. H \in Nat \ {0} /\ Size(n.len) = 2 * H
  BY <1>3, SizeHalves
<1> HIDE DEF H
<1>5. n.addr = (2 * q) * H /\ n.addr + H = (2 * q + 1) * H
  BY <1>2, <1>4
<1>6. n.addr \in Address /\ n.addr + H \in Address
  <2>1. n.addr + H \in Addresses(n)
    BY <1>1, <1>4
  <2> QED
    BY <1>1, <2>1, NetworkInSpace DEF Prefix
<1>7. /\ Lower(n) \in Prefix /\ Lower(n).addr = (2 * q) * Size(Lower(n).len)
      /\ Upper(n) \in Prefix /\ Upper(n).addr = (2 * q + 1) * Size(Upper(n).len)
  BY <1>3, <1>5, <1>6 DEF Lower, Upper, Prefix, H
<1>8. Lower(n) \in Networks /\ Upper(n) \in Networks
  <2>1. 2 * q \in Nat /\ 2 * q + 1 \in Nat
    OBVIOUS
  <2> QED
    BY <1>7, <2>1, AlignedIsNetwork
<1>9. /\ Addresses(Lower(n)) = n.addr..(n.addr + H - 1)
      /\ Addresses(Upper(n)) = (n.addr + H)..(n.addr + H + H - 1)
  BY <1>8, NetworkBlock DEF Lower, Upper, H
<1>10. Addresses(Upper(n)) = (n.addr + H)..(n.addr + Size(n.len) - 1)
  BY <1>1, <1>4, <1>9
<1>11. Addresses(n) = Addresses(Lower(n)) \cup Addresses(Upper(n))
  BY <1>1, <1>4, <1>9, <1>10
<1> QED
  BY <1>4, <1>8, <1>9, <1>10, <1>11 DEF H

(* A network inside another lies in one of its halves.                     *)
LEMMA Nested ==
  ASSUME NEW m \in Networks, NEW n \in Networks, m # n, Addresses(m) \subseteq Addresses(n)
  PROVE  /\ n.len < Width
         /\ \/ Addresses(m) \subseteq Addresses(Lower(n))
            \/ Addresses(m) \subseteq Addresses(Upper(n))
<1> DEFINE M == Size(m.len)
           N == Size(n.len)
<1>1. /\ m.addr \in Nat /\ m.len \in 0..Width /\ M \in Nat \ {0}
      /\ Addresses(m) = m.addr..(m.addr + M - 1)
  BY NetworkBlock
<1>2. /\ n.addr \in Nat /\ n.len \in 0..Width /\ N \in Nat \ {0}
      /\ Addresses(n) = n.addr..(n.addr + N - 1)
  BY NetworkBlock
<1>3. PICK p \in Nat : m.addr = p * M
  BY NetworkBlock
<1>4. PICK q \in Nat : n.addr = q * N
  BY NetworkBlock
<1>5. n.addr <= m.addr /\ m.addr + M <= n.addr + N
  <2> HIDE DEF M, N
  <2>1. m.addr \in Addresses(m) /\ m.addr + M - 1 \in Addresses(m)
    BY <1>1
  <2>2. m.addr \in n.addr..(n.addr + N - 1) /\ m.addr + M - 1 \in n.addr..(n.addr + N - 1)
    BY <1>2, <2>1
  <2> QED
    BY <1>1, <1>2, <2>2
<1>6. m.len > n.len
  <2>1. m.len # n.len
    <3>1. m.addr \in Addresses(m) /\ m.addr \in Addresses(n)
      BY <1>1
    <3> QED
      BY <3>1, OneNetwork
  <2>2. ASSUME m.len < n.len PROVE FALSE
    <3>1. m.len \in 0..(Width - 1) /\ m.len + 1 \in 0..n.len
      BY <1>1, <1>2, <2>2, RouteAssumption
    <3>2. PICK k \in Nat \ {0} : Size(m.len + 1) = k * N
      BY <1>2, <3>1, SizeDivides
    <3>3. M = 2 * (k * N)
      BY <3>1, <3>2, SizeHalves
    <3> HIDE DEF M, N
    <3>4. k * N >= N
      BY <1>2, SMTT(30)
    <3>5. PICK w \in Nat : w = k * N
      BY <1>2
    <3>6. M = 2 * w /\ w >= N
      BY <3>3, <3>4, <3>5
    <3> QED
      BY <1>1, <1>2, <1>5, <3>6
  <2> QED
    BY <1>1, <1>2, <2>1, <2>2
<1>7. n.len < Width /\ n.len + 1 \in 0..m.len
  BY <1>1, <1>2, <1>6, RouteAssumption
<1> DEFINE H == Size(n.len + 1)
<1>8. PICK k \in Nat \ {0} : H = k * M
  BY <1>1, <1>7, SizeDivides
<1>9. /\ N = 2 * H
      /\ Addresses(Lower(n)) = n.addr..(n.addr + H - 1)
      /\ Addresses(Upper(n)) = (n.addr + H)..(n.addr + N - 1)
  BY <1>7, Halves
<1> HIDE DEF M, N, H
<1>10. H \in Nat \ {0} /\ n.addr + H = (2 * q + 1) * H
  BY <1>1, <1>2, <1>4, <1>8, <1>9
<1>11. n.addr + H = ((2 * q + 1) * k) * M /\ (2 * q + 1) * k \in Nat
  BY <1>1, <1>8, <1>10
<1>12. CASE m.addr < n.addr + H
  <2>1. p * M < ((2 * q + 1) * k) * M
    BY <1>3, <1>11, <1>12
  <2>2. p * M + M <= ((2 * q + 1) * k) * M
    BY <1>1, <1>11, <2>1, Apart
  <2>3. m.addr + M <= n.addr + H
    BY <1>3, <1>11, <2>2
  <2> QED
    BY <1>1, <1>2, <1>5, <1>7, <1>9, <1>10, <2>3, SMTT(30)
<1>13. CASE m.addr >= n.addr + H
  BY <1>1, <1>2, <1>5, <1>7, <1>9, <1>10, <1>13
<1> QED
  BY <1>1, <1>2, <1>10, <1>12, <1>13

-----------------------------------------------------------------------------
(* A network's addresses all belong to given networks within it.           *)
Covered(nets, n) ==
  \A a \in Addresses(n) :
    \E m \in nets : a \in Addresses(m) /\ Addresses(m) \subseteq Addresses(n)

(* Coverage obeys the equation that collapsing computes with.              *)
LEMMA CoveredByHalves ==
  ASSUME NEW nets, nets \subseteq Networks, NEW n \in Networks
  PROVE  Covered(nets, n) <=>
           n \in nets \/ (n.len < Width /\ Covered(nets, Lower(n)) /\ Covered(nets, Upper(n)))
<1>1. ASSUME n \in nets PROVE Covered(nets, n)
  BY <1>1 DEF Covered
<1>2. ASSUME n.len < Width, Covered(nets, Lower(n)), Covered(nets, Upper(n))
      PROVE  Covered(nets, n)
  <2>1. Addresses(n) = Addresses(Lower(n)) \cup Addresses(Upper(n))
    BY <1>2, Halves
  <2> QED
    BY <1>2, <2>1 DEF Covered
<1>3. ASSUME Covered(nets, n), n \notin nets
      PROVE  n.len < Width /\ Covered(nets, Lower(n)) /\ Covered(nets, Upper(n))
  <2>1. \A a \in Addresses(n) : \E m \in nets :
          /\ a \in Addresses(m) /\ n.len < Width
          /\ \/ Addresses(m) \subseteq Addresses(Lower(n))
             \/ Addresses(m) \subseteq Addresses(Upper(n))
    BY <1>3, Nested DEF Covered
  <2>2. n.len < Width
    <3>1. n.addr \in Addresses(n)
      BY NetworkBlock
    <3> QED
      BY <2>1, <3>1
  <2>3. /\ Addresses(n) = Addresses(Lower(n)) \cup Addresses(Upper(n))
        /\ Addresses(Lower(n)) \cap Addresses(Upper(n)) = {}
    <3>1. n.addr \in Nat /\ n.len + 1 \in 0..Width
      BY <2>2, NetworkBlock, RouteAssumption
    <3>2. Size(n.len + 1) \in Nat
      BY <3>1, SizeHalves
    <3> QED
      BY <2>2, <3>1, <3>2, Halves
  <2> QED
    BY <2>1, <2>2, <2>3 DEF Covered
<1> QED
  BY <1>1, <1>2, <1>3

(* The recursive definition of Collapse has a solution, so it is one.      *)
LEMMA CollapseUnfolds ==
  ASSUME NEW nets, nets \subseteq Networks
  PROVE  \A n \in Networks :
           Collapse(nets)[n] <=>
             n \in nets \/ (n.len < Width /\ Collapse(nets)[Lower(n)] /\ Collapse(nets)[Upper(n)])
<1> DEFINE Solves(h) ==
             h = [n \in Networks |->
                    n \in nets \/ (n.len < Width /\ h[Lower(n)] /\ h[Upper(n)])]
           g == [n \in Networks |-> Covered(nets, n)]
<1>1. Collapse(nets) = CHOOSE h : Solves(h)
  BY DEF Collapse
<1>2. \A n \in Networks : n.len < Width => Lower(n) \in Networks /\ Upper(n) \in Networks
  BY Halves
<1>3. \A n \in Networks :
        Covered(nets, n) = (n \in nets \/ (n.len < Width /\ g[Lower(n)] /\ g[Upper(n)]))
  <2> SUFFICES ASSUME NEW n \in Networks
               PROVE  Covered(nets, n) <=> n \in nets \/ (n.len < Width /\ g[Lower(n)] /\ g[Upper(n)])
    BY DEF Covered
  <2>1. n.len < Width => /\ g[Lower(n)] <=> Covered(nets, Lower(n))
                         /\ g[Upper(n)] <=> Covered(nets, Upper(n))
    BY <1>2
  <2> QED
    BY <2>1, CoveredByHalves
<1>4. Solves(g)
  BY <1>3
<1> HIDE DEF Solves
<1>5. Solves(CHOOSE h : Solves(h))
  BY <1>4
<1>6. Solves(Collapse(nets))
  BY <1>1, <1>5
<1> QED
  BY <1>6 DEF Solves

(* What collapsing computes, by induction on the length of the prefix.     *)
LEMMA CollapseIsCoverage ==
  ASSUME NEW nets, nets \subseteq Networks, NEW n \in Networks
  PROVE  Collapse(nets)[n] <=> Covered(nets, n)
<1> DEFINE Right(m) == Collapse(nets)[m] <=> Covered(nets, m)
           T == {d \in 0..Width : \E m \in Networks : Width - m.len = d /\ ~Right(m)}
<1>1. \A m \in Networks : m.len \in 0..Width /\ Width - m.len \in 0..Width
  <2>1. \A m \in Networks : m.len \in 0..Width
    BY NetworkBlock
  <2> QED
    BY <2>1, RouteAssumption
<1>2. ASSUME NEW m \in Networks, m.len < Width => Right(Lower(m)) /\ Right(Upper(m))
      PROVE  Right(m)
  BY <1>2, CollapseUnfolds, CoveredByHalves
<1> HIDE DEF Right
<1>3. T \subseteq Nat
  BY RouteAssumption
<1>4. ASSUME T # {} PROVE FALSE
  <2>1. PICK d \in T : \A e \in T : d <= e
    <3> HIDE DEF T
    <3> QED
      BY <1>3, <1>4, LeastNat
  <2>2. PICK m \in Networks : Width - m.len = d /\ ~Right(m)
    OBVIOUS
  <2>3. ASSUME NEW h \in Networks, m.len < Width, h.len = m.len + 1 PROVE Right(h)
    <3>1. Width - h.len = d - 1 /\ d \in Nat
      BY <1>1, <1>3, <2>2, <2>3, RouteAssumption
    <3>2. d - 1 \notin T
      BY <1>3, <2>1, <3>1
    <3> QED
      BY <1>1, <3>1, <3>2
  <2>4. m.len < Width => Right(Lower(m)) /\ Right(Upper(m))
    BY <2>3, Halves DEF Lower, Upper
  <2> QED
    BY <1>2, <2>2, <2>4
<1>5. Right(n)
  BY <1>1, <1>4
<1> QED
  BY <1>5 DEF Right

(* covers_entire_ipv4 is right: prefixes collapse into the whole address   *)
(* space if and only if every address is in one of them, for addresses of  *)
(* any width and prefixes with or without host bits.                       *)
THEOREM CoversEntireIsCoverage ==
  ASSUME NEW prefixes, prefixes \subseteq Prefix
  PROVE  CoversEntire(prefixes) <=> UNION {Addresses(p) : p \in prefixes} = Address
<1> DEFINE nets == {Network(p) : p \in prefixes}
<1>1. nets \subseteq Networks
  BY AddressesOfNetwork
<1>2. \A p \in prefixes : Addresses(Network(p)) = Addresses(p)
  BY AddressesOfNetwork
<1>3. \A m \in nets : Addresses(m) \subseteq Address
  BY <1>1, NetworkInSpace
<1>4. CoversEntire(prefixes) <=> Covered(nets, Whole)
  <2>1. CoversEntire(prefixes) <=> Collapse(nets)[Whole]
    BY DEF CoversEntire, Whole
  <2> HIDE DEF nets
  <2> QED
    BY <1>1, <2>1, CollapseIsCoverage, WholeIsNetwork
<1>5. Covered(nets, Whole) <=> \A a \in Address : \E m \in nets : a \in Addresses(m)
  BY <1>3, WholeIsNetwork DEF Covered
<1>6. UNION {Addresses(p) : p \in prefixes} \subseteq Address
  BY <1>2, <1>3
<1>7. (\A a \in Address : \E m \in nets : a \in Addresses(m))
        <=> (\A a \in Address : \E p \in prefixes : a \in Addresses(p))
  BY <1>2
<1> QED
  BY <1>4, <1>5, <1>6, <1>7

-----------------------------------------------------------------------------
(* What a route plan promises of any routes it accepts.                    *)
GoodRoutes(routes) ==
  /\ routes \subseteq Claim
  /\ \A r \in routes : r.prefix \in Networks /\ Permitted(r.prefix)
  /\ \A r, s \in routes : r.prefix = s.prefix => r.id = s.id
  /\ ~CoversEntire({r.prefix : r \in routes})

LEMMA NoRoutes == GoodRoutes({})
<1>1. 0 \in Address
  BY RouteAssumption, PowerAssumption DEF Address
<1>2. UNION {Addresses(p) : p \in {}} # Address
  BY <1>1
<1>3. {} \subseteq Prefix
  OBVIOUS
<1>4. ~CoversEntire({})
  BY <1>2, <1>3, CoversEntireIsCoverage
<1>5. {r.prefix : r \in {}} = {}
  OBVIOUS
<1> QED
  BY <1>4, <1>5 DEF GoodRoutes

LEMMA AcceptedRoutes ==
  ASSUME NEW claims, claims \subseteq Claim, PlanAccepts(claims)
  PROVE  GoodRoutes(Routes(claims))
<1>1. \A c \in claims : /\ c.id \in Resource /\ c.prefix \in Prefix
                        /\ Network(c.prefix) \in Networks /\ Network(c.prefix) \in Prefix
  BY AddressesOfNetwork, NetworkAligned DEF Claim
<1>2. \A r \in Routes(claims) : r \in Claim /\ r.prefix \in Networks
  BY <1>1 DEF Routes, Claim
<1> QED
  BY <1>2 DEF PlanAccepts, GoodRoutes

LEMMA RoutesSplitTunnel ==
  ASSUME NEW routes, GoodRoutes(routes)
  PROVE  UNION {Addresses(r.prefix) : r \in routes} # Address
<1> DEFINE P == {r.prefix : r \in routes}
<1>1. P \subseteq Prefix
  BY DEF GoodRoutes, Claim
<1>2. UNION {Addresses(p) : p \in P} # Address
  BY <1>1, CoversEntireIsCoverage DEF GoodRoutes
<1>3. UNION {Addresses(r.prefix) : r \in routes} = UNION {Addresses(p) : p \in P}
  OBVIOUS
<1> QED
  BY <1>2, <1>3

(* A set without two different elements counts one at most.                *)
LEMMA AtMostOne ==
  ASSUME NEW S, \A x, y \in S : x = y
  PROVE  Cardinality(S) <= 1
<1>1. CASE S = {}
  BY <1>1, FS_EmptySet
<1>2. ASSUME NEW x \in S PROVE Cardinality(S) <= 1
  <2>1. S = {x}
    OBVIOUS
  <2> QED
    BY <2>1, FS_Singleton
<1> QED
  BY <1>1, <1>2

(* Two longest matches of an address are one network, which has one owner. *)
LEMMA RoutesOneOwner ==
  ASSUME NEW routes, GoodRoutes(routes), NEW a
  PROVE  Cardinality({r.id : r \in Lookup(routes, a)}) <= 1
<1> SUFFICES ASSUME NEW r \in Lookup(routes, a), NEW s \in Lookup(routes, a)
             PROVE  r.id = s.id
  BY AtMostOne
<1>1. /\ r \in routes /\ a \in Addresses(r.prefix) /\ s.prefix.len <= r.prefix.len
      /\ s \in routes /\ a \in Addresses(s.prefix) /\ r.prefix.len <= s.prefix.len
  BY DEF Lookup, Matches
<1>2. r.prefix \in Networks /\ s.prefix \in Networks
  BY <1>1 DEF GoodRoutes
<1>3. r.prefix.len \in 0..Width /\ s.prefix.len \in 0..Width
  BY <1>2, NetworkBlock
<1>4. r.prefix.len = s.prefix.len
  BY <1>1, <1>3
<1>5. r.prefix = s.prefix
  BY <1>1, <1>2, <1>4, OneNetwork
<1> QED
  BY <1>1, <1>5 DEF GoodRoutes

-----------------------------------------------------------------------------
(* A plan waits between its verification and the lock: that it came from   *)
(* an authorized envelope has to be remembered for every thread.           *)
FromEnvelope(plan) == \E e \in Envelopes : Authorized(e) /\ plan = PlanOf(e)

HelperInv ==
  /\ state = At(state.generation, Content(state)) /\ state.generation \in Nat
  /\ Content(state) = Empty \/ FromEnvelope(Content(state))
  /\ verified = [t \in Threads |-> verified[t]]
  /\ \A t \in Threads : verified[t] # NoPlan => FromEnvelope(verified[t].plan)
  /\ MirrorAgrees

(* A generation goes up by one when the state changes, and only then.      *)
GenerationStep ==
  /\ state'.generation \in {state.generation, state.generation + 1}
  /\ state'.generation = state.generation => state' = state

(* One critical section: _change() against the state it replaces.          *)
LEMMA ChangeInstalls ==
  ASSUME HelperInv, NEW plan, plan = Empty \/ FromEnvelope(plan),
         state' = Change(state, plan).after, mirror' = Told(Change(state, plan)),
         UNCHANGED verified \/ \E t \in Threads : verified' = [verified EXCEPT ![t] = NoPlan]
  PROVE  HelperInv' /\ GenerationStep
<1>1. plan = [session |-> plan.session, routes |-> plan.routes, order |-> plan.order,
               dns |-> plan.dns]
  BY DEF Empty, FromEnvelope, PlanOf
<1>2. state' = IF plan = Content(state) THEN state ELSE At(state.generation + 1, plan)
  BY DEF Change, Delta
<1>3. Content(state') = plan /\ state'.generation \in Nat
  BY <1>1, <1>2 DEF Content, At, HelperInv
<1>4. state' = At(state'.generation, Content(state'))
  BY <1>1, <1>2 DEF Content, At, HelperInv
<1>5. MirrorAgrees'
  <2>1. /\ mirror.routes = state.routes /\ mirror.dns = state.dns
        /\ mirror' = [routes |-> (mirror.routes \ (state.routes \ state'.routes))
                                   \cup (state'.routes \ state.routes),
                      dns |-> (mirror.dns \ (state.dns \ state'.dns))
                                \cup (state'.dns \ state.dns)]
    BY DEF Told, Change, Delta, HelperInv, MirrorAgrees
  <2> QED
    BY <2>1 DEF MirrorAgrees
<1>6. verified' = [t \in Threads |-> verified'[t]]
  BY DEF HelperInv
<1>7. \A t \in Threads : verified'[t] # NoPlan => verified'[t] = verified[t]
  BY DEF HelperInv
<1>8. GenerationStep
  BY <1>2, <1>3 DEF GenerationStep, At, HelperInv
<1> QED
  BY <1>3, <1>4, <1>5, <1>6, <1>7, <1>8 DEF HelperInv, MirrorAgrees

LEMMA HelperInitInv == Init => HelperInv
  BY DEF Init, HelperInv, At, Content, Empty, MirrorAgrees

LEMMA HelperStep == HelperInv /\ [Next]_vars => HelperInv' /\ (GenerationStep \/ UNCHANGED vars)
<1> SUFFICES ASSUME HelperInv, [Next]_vars
             PROVE  HelperInv' /\ (GenerationStep \/ UNCHANGED vars)
  OBVIOUS
<1>1. ASSUME NEW t \in Threads, NEW kind, NEW e \in Envelopes, Verify(t, kind, e)
      PROVE  HelperInv' /\ GenerationStep
  <2>1. \A u \in Threads : verified'[u] = IF u = t THEN [kind |-> kind, plan |-> PlanOf(e)]
                                                   ELSE verified[u]
    BY <1>1 DEF Verify, HelperInv
  <2>2. FromEnvelope(PlanOf(e))
    BY <1>1 DEF Verify, FromEnvelope
  <2>3. verified' = [u \in Threads |-> verified'[u]] /\ UNCHANGED <<state, mirror>>
    BY <1>1 DEF Verify, HelperInv
  <2>4. \A u \in Threads : verified'[u] # NoPlan => FromEnvelope(verified'[u].plan)
    BY <2>1, <2>2 DEF HelperInv
  <2> QED
    BY <2>3, <2>4 DEF HelperInv, MirrorAgrees, GenerationStep
<1>2. ASSUME NEW t \in Threads, Preview(t) PROVE HelperInv' /\ GenerationStep
  BY <1>2 DEF Preview, HelperInv, MirrorAgrees, GenerationStep
<1>3. ASSUME NEW t \in Threads, Apply(t) PROVE HelperInv' /\ GenerationStep
  <2>1. FromEnvelope(verified[t].plan)
    BY <1>3 DEF Apply, HelperInv
  <2> QED
    BY <1>3, <2>1, ChangeInstalls DEF Apply
<1>4. CASE Rollback
  BY <1>4, ChangeInstalls DEF Rollback
<1>5. CASE UNCHANGED vars
  BY <1>5 DEF vars, HelperInv, MirrorAgrees
<1> QED
  BY <1>1, <1>2, <1>3, <1>4, <1>5 DEF Next

LEMMA HelperInvariant == Spec => []HelperInv
<1>1. HelperInv /\ [Next]_vars => HelperInv'
  BY HelperStep
<1> QED
  BY <1>1, HelperInitInv, PTL DEF Spec

LEMMA InstalledRoutesGood == HelperInv => GoodRoutes(state.routes)
<1> SUFFICES ASSUME HelperInv PROVE GoodRoutes(state.routes)
  OBVIOUS
<1>1. CASE Content(state) = Empty
  BY <1>1, NoRoutes DEF Content, Empty
<1>2. ASSUME NEW e \in Envelopes, Authorized(e), Content(state) = PlanOf(e)
      PROVE  GoodRoutes(state.routes)
  <2>1. state.routes = Routes(e.claims)
    BY <1>2 DEF Content, PlanOf
  <2>2. e.claims \subseteq Claim /\ PlanAccepts(e.claims)
    BY <1>2, HelperAssumption DEF Authorized
  <2> QED
    BY <2>1, <2>2, AcceptedRoutes
<1> QED
  BY <1>1, <1>2 DEF HelperInv, FromEnvelope

(* Whatever order threads verify and take the lock in, what is installed   *)
(* is the plan of one authorized envelope, or nothing.                     *)
THEOREM OnlyAuthorizedInstalled == Spec => []InstalledIsAuthorized
<1>1. HelperInv => InstalledIsAuthorized
  BY DEF HelperInv, FromEnvelope, Authorized, WellFormed, InstalledIsAuthorized
<1> QED
  BY <1>1, HelperInvariant, PTL

(* The deltas that apply() and rollback() return add up to what is         *)
(* installed.                                                              *)
THEOREM DeltasAddUp == Spec => []MirrorAgrees
<1>1. HelperInv => MirrorAgrees
  BY DEF HelperInv
<1> QED
  BY <1>1, HelperInvariant, PTL

(* A generation number names one state for ever.                           *)
THEOREM GenerationsNameStates == Spec => GenerationNames
<1>1. HelperInv /\ [Next]_vars =>
        [/\ state'.generation \in {state.generation, state.generation + 1}
         /\ state'.generation = state.generation => state' = state]_vars
  BY HelperStep DEF GenerationStep
<1> QED
  BY <1>1, HelperInvariant, PTL DEF Spec, GenerationNames

(* No plan the helper installs takes the whole address space into the      *)
(* tunnel, for addresses of any width and any mix of prefixes.             *)
THEOREM NeverFullTunnel == Spec => []SplitTunnel
<1>1. HelperInv => SplitTunnel
  BY InstalledRoutesGood, RoutesSplitTunnel DEF SplitTunnel
<1> QED
  BY <1>1, HelperInvariant, PTL

(* The longest match of an address has one owner.                          *)
THEOREM AddressesHaveOneOwner == Spec => []OneOwner
<1>1. HelperInv => OneOwner
  BY InstalledRoutesGood, RoutesOneOwner DEF OneOwner
<1> QED
  BY <1>1, HelperInvariant, PTL

-----------------------------------------------------------------------------
(* What holds of the packet under way: it was sent only with a plan that   *)
(* was accepted and a route in it, and denied only by the gateway's test.  *)
PacketInv ==
  /\ registry \in RouteLists
  /\ result \in {"sent", "acknowledged", "denied"} =>
       PlanAccepts(registry) /\ Lookup(Routes(registry), packet) # {}
  /\ result = "denied" => ~GatewayTakes(registry, Home, packet)

LEMMA PacketInvariant == PacketSpec => []PacketInv
<1>1. PacketInit => PacketInv
  BY DEF PacketInit, PacketInv
<1>2. PacketInv /\ [PacketNext]_packetVars => PacketInv'
  <2> SUFFICES ASSUME PacketInv, [PacketNext]_packetVars PROVE PacketInv'
    OBVIOUS
  <2>1. ASSUME NEW a \in Address, SendL3(a) PROVE PacketInv'
    <3>1. packet' = a /\ registry' = registry /\ result' \in {"refused", "unrouted", "sent"}
      BY <2>1 DEF SendL3
    <3>2. result' = "sent" => PlanAccepts(registry) /\ Lookup(Routes(registry), a) # {}
      BY <2>1 DEF SendL3
    <3> QED
      BY <3>1, <3>2 DEF PacketInv
  <2>2. CASE HandleL3
    BY <2>2 DEF HandleL3, PacketInv
  <2>3. CASE SendL3Returns
    BY <2>3 DEF SendL3Returns, PacketInv
  <2>4. CASE UNCHANGED packetVars
    BY <2>4 DEF packetVars, PacketInv
  <2> QED
    BY <2>1, <2>2, <2>3, <2>4 DEF PacketNext
<1> QED
  BY <1>1, <1>2, PTL DEF PacketSpec

(* Normalising a route does not change its addresses: what the client's    *)
(* lookup finds for a resource, the gateway of that resource takes.        *)
LEMMA OwnerTakes ==
  ASSUME NEW claims, claims \subseteq Claim, NEW a, NEW r \in Lookup(Routes(claims), a)
  PROVE  GatewayTakes(claims, r.id, a)
<1>1. r \in Routes(claims) /\ a \in Addresses(r.prefix)
  BY DEF Lookup, Matches
<1>2. PICK c \in claims : r = [id |-> c.id, prefix |-> Network(c.prefix)]
  BY <1>1 DEF Routes
<1>3. c.prefix \in Prefix
  BY DEF Claim
<1>4. a \in Addresses(c.prefix) /\ c.id = r.id
  BY <1>1, <1>2, <1>3, AddressesOfNetwork
<1> QED
  BY <1>4 DEF GatewayTakes

LEMMA DeniedIsForeign == PacketInv => HomeRoutedIsAcknowledged
<1> SUFFICES ASSUME PacketInv, result = "denied",
                    NEW r \in Lookup(Routes(registry), packet), r.id = Home
             PROVE  FALSE
  BY DEF HomeRoutedIsAcknowledged
<1>1. registry \subseteq Claim
  BY PacketAssumption DEF PacketInv
<1>2. GatewayTakes(registry, Home, packet)
  BY <1>1, OwnerTakes
<1> QED
  BY <1>2 DEF PacketInv

(* A packet whose longest match is a route of the session's resource is    *)
(* acknowledged, however the registry spells its routes.                   *)
THEOREM HomePacketsAcknowledged == PacketSpec => []HomeRoutedIsAcknowledged
<1> QED
  BY DeniedIsForeign, PacketInvariant, PTL

(* With a registry of one resource, like the stack's, send_l3() is as good *)
(* as its word: a packet the client finds a route for is acknowledged.     *)
THEOREM OneResourceAcknowledged ==
  ASSUME \A claims \in RouteLists : \A c \in claims : c.id = Home
  PROVE  PacketSpec => []RoutedIsAcknowledged
<1>1. ASSUME PacketInv, result = "denied" PROVE FALSE
  <2>1. PICK r \in Lookup(Routes(registry), packet) : TRUE
    BY <1>1 DEF PacketInv
  <2>2. r \in Routes(registry) /\ \A c \in registry : c.id = Home
    BY <1>1, <2>1 DEF Lookup, Matches, PacketInv
  <2>3. r.id = Home
    BY <2>2 DEF Routes
  <2> QED
    BY <1>1, <2>1, <2>3, DeniedIsForeign DEF HomeRoutedIsAcknowledged
<1>2. PacketInv => RoutedIsAcknowledged
  BY <1>1 DEF RoutedIsAcknowledged
<1> QED
  BY <1>2, PacketInvariant, PTL

(* No packet is sent while one prefix, however it is spelt, belongs to     *)
(* several resources.                                                      *)
THEOREM AmbiguityIsRefused == PacketSpec => []AmbiguityFailsClosed
<1>1. PacketInv => AmbiguityFailsClosed
  <2> SUFFICES ASSUME PacketInv, result \in {"sent", "acknowledged", "denied"},
                      NEW c \in registry, NEW d \in registry,
                      Network(c.prefix) = Network(d.prefix)
               PROVE  c.id = d.id
    BY DEF AmbiguityFailsClosed
  <2>1. /\ [id |-> c.id, prefix |-> Network(c.prefix)] \in Routes(registry)
        /\ [id |-> d.id, prefix |-> Network(d.prefix)] \in Routes(registry)
    BY DEF Routes
  <2>2. \A r, s \in Routes(registry) : r.prefix = s.prefix => r.id = s.id
    BY DEF PacketInv, PlanAccepts
  <2> QED
    BY <2>1, <2>2
<1> QED
  BY <1>1, PacketInvariant, PTL
=============================================================================
