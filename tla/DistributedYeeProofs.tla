------------------------- MODULE DistributedYeeProofs -------------------------
(***************************************************************************)
(* The split solver agrees with the single-process one, for every grid,    *)
(* cut, split axis, coefficient array, initial field, Bloch phase and      *)
(* number of steps.  The argument follows a half step: a slab wraps as the *)
(* grid does, the plane it packs is the one its peer lacks, the dense      *)
(* update differs from the grid's only where it read an old ghost, and     *)
(* there by the term finish() adds; materials and sources then do the same *)
(* on both sides.                                                          *)
(***************************************************************************)
EXTENDS DistributedYee, HaloHost, TLAPS

\* Facts about finite sets.
Finite == INSTANCE FiniteSetTheorems

-----------------------------------------------------------------------------
\* The halo protocol.

\* The two ranks are each other's peer.
LEMMA PeerFacts ==
  ASSUME NEW r \in Ranks
  PROVE  /\ Peer(r) \in Ranks /\ Peer(r) # r /\ Peer(Peer(r)) = r
         /\ \A q \in Ranks : q = r \/ q = Peer(r)
BY DEF Ranks, Peer

\* The initial state satisfies the inductive invariant.
LEMMA HaloInitIInv == HaloInit => HaloIInv
BY StepsAssumption, PeerFacts DEF HaloInit, HaloIInv, TypeOK, SameHalf, Ahead, Quiet

\* Every step of the protocol preserves the inductive invariant.
LEMMA HaloNextIInv == HaloIInv /\ [HaloNext]_control => HaloIInv'
<1> SUFFICES ASSUME HaloIInv, [HaloNext]_control
             PROVE  HaloIInv'
  OBVIOUS
<1> USE StepsAssumption, PeerFacts DEF HaloIInv, TypeOK, Running
<1>1. ASSUME NEW r \in Ranks, HaloBegin(r)
      PROVE  HaloIInv'
  <2>1. TypeOK'
    BY <1>1 DEF HaloBegin
  <2>2. ASSUME NEW q \in Ranks
        PROVE  SameHalf(q)'
    BY <1>1 DEF HaloBegin, SameHalf, Ahead, Quiet
  <2>3. ASSUME NEW q \in Ranks
        PROVE  Ahead(q)'
    BY <1>1 DEF HaloBegin, SameHalf, Ahead, Quiet
  <2>4. ASSUME NEW q \in Ranks
        PROVE  Quiet(q)'
    BY <1>1 DEF HaloBegin, SameHalf, Ahead, Quiet
  <2> QED
    BY <2>1, <2>2, <2>3, <2>4
<1>2. ASSUME NEW r \in Ranks, HaloCompute(r)
      PROVE  HaloIInv'
  <2>1. TypeOK'
    BY <1>2 DEF HaloCompute
  <2>2. ASSUME NEW q \in Ranks
        PROVE  SameHalf(q)'
    BY <1>2 DEF HaloCompute, SameHalf, Ahead, Quiet
  <2>3. ASSUME NEW q \in Ranks
        PROVE  Ahead(q)'
    BY <1>2 DEF HaloCompute, SameHalf, Ahead, Quiet
  <2>4. ASSUME NEW q \in Ranks
        PROVE  Quiet(q)'
    BY <1>2 DEF HaloCompute, SameHalf, Ahead, Quiet
  <2> QED
    BY <2>1, <2>2, <2>3, <2>4
<1>3. ASSUME NEW r \in Ranks, HaloDeliver(r)
      PROVE  HaloIInv'
  <2>1. TypeOK'
    BY <1>3 DEF HaloDeliver
  <2>2. ASSUME NEW q \in Ranks
        PROVE  SameHalf(q)'
    BY <1>3 DEF HaloDeliver, SameHalf, Ahead, Quiet
  <2>3. ASSUME NEW q \in Ranks
        PROVE  Ahead(q)'
    BY <1>3 DEF HaloDeliver, SameHalf, Ahead, Quiet
  <2>4. ASSUME NEW q \in Ranks
        PROVE  Quiet(q)'
    BY <1>3 DEF HaloDeliver, SameHalf, Ahead, Quiet
  <2> QED
    BY <2>1, <2>2, <2>3, <2>4
<1>4. ASSUME NEW r \in Ranks, HaloFinish(r)
      PROVE  HaloIInv'
  <2>1. TypeOK'
    BY <1>4 DEF HaloFinish
  <2>2. ASSUME NEW q \in Ranks
        PROVE  SameHalf(q)'
    BY <1>4 DEF HaloFinish, SameHalf, Ahead, Quiet
  <2>3. ASSUME NEW q \in Ranks
        PROVE  Ahead(q)'
    BY <1>4 DEF HaloFinish, SameHalf, Ahead, Quiet
  <2>4. ASSUME NEW q \in Ranks
        PROVE  Quiet(q)'
    BY <1>4 DEF HaloFinish, SameHalf, Ahead, Quiet
  <2> QED
    BY <2>1, <2>2, <2>3, <2>4
<1>5. ASSUME NEW r \in Ranks, HaloPost(r)
      PROVE  HaloIInv'
  <2>1. TypeOK'
    BY <1>5 DEF HaloPost
  <2>2. ASSUME NEW q \in Ranks
        PROVE  SameHalf(q)'
    BY <1>5 DEF HaloPost, SameHalf, Ahead, Quiet
  <2>3. ASSUME NEW q \in Ranks
        PROVE  Ahead(q)'
    BY <1>5 DEF HaloPost, SameHalf, Ahead, Quiet
  <2>4. ASSUME NEW q \in Ranks
        PROVE  Quiet(q)'
    BY <1>5 DEF HaloPost, SameHalf, Ahead, Quiet
  <2> QED
    BY <2>1, <2>2, <2>3, <2>4
<1>6. ASSUME NEW r \in Ranks, Fail(r)
      PROVE  HaloIInv'
  <2>1. TypeOK'
    BY <1>6 DEF Fail
  <2>2. ASSUME NEW q \in Ranks
        PROVE  SameHalf(q)'
    BY <1>6 DEF Fail, SameHalf, Ahead, Quiet
  <2>3. ASSUME NEW q \in Ranks
        PROVE  Ahead(q)'
    BY <1>6 DEF Fail, SameHalf, Ahead, Quiet
  <2>4. ASSUME NEW q \in Ranks
        PROVE  Quiet(q)'
    BY <1>6 DEF Fail, SameHalf, Ahead, Quiet
  <2> QED
    BY <2>1, <2>2, <2>3, <2>4
<1>7. CASE UNCHANGED control
  BY <1>7 DEF control, SameHalf, Ahead, Quiet
<1> QED
  BY <1>1, <1>2, <1>3, <1>4, <1>5, <1>6, <1>7 DEF HaloNext, HaloTerminated

\* HaloIInv holds in every reachable state, for any number of steps.
THEOREM HaloInductive == HaloSpec => []HaloIInv
BY HaloInitIInv, HaloNextIInv, PTL DEF HaloSpec

\* A send never meets a receive of another half step, although the
\* transfers carry no tag: begin()'s packed plane reaches the right finish().
THEOREM HaloMatchHolds == HaloSpec => []HaloMatch
<1>1. HaloIInv => HaloMatch
  BY PeerFacts DEF HaloIInv, TypeOK, SameHalf, Ahead, Quiet, HaloMatch
<1> QED
  BY <1>1, HaloInductive, PTL

\* The persistent halo buffers are never reused under a pending transfer.
THEOREM BuffersQuietHolds == HaloSpec => []BuffersQuiet
<1>1. HaloIInv => BuffersQuiet
  BY DEF HaloIInv, Quiet, BuffersQuiet
<1> QED
  BY <1>1, HaloInductive, PTL

\* A device that completes every half step beside a failed peer got the halo of
\* the last one from it, and the peer has its own.
THEOREM CompletesWithPeerHolds == HaloSpec => []CompletesWithPeer
<1>1. HaloIInv => CompletesWithPeer
  BY PeerFacts, StepsAssumption
  DEF HaloIInv, TypeOK, Ahead, Quiet, CompletesWithPeer
<1> QED
  BY <1>1, HaloInductive, PTL

\* Every behaviour of the protocol is one of the abstract order: a completed
\* half step is Complete, an exception is Raise, everything else stutters.
THEOREM ImplementsOrder == HaloSpec => OrderSpec
<1>1. HaloInit => Order!Init
  BY DEF HaloInit, Order!Init, Ranks, Order!Ranks
<1>2. HaloIInv /\ [HaloNext]_control => [Order!Next]_(Order!vars)
  <2> SUFFICES ASSUME HaloIInv, [HaloNext]_control
               PROVE  Order!Next \/ UNCHANGED <<half, raised>>
    BY DEF Order!vars
  <2> USE DEF Order!Next, Order!Ranks, Ranks
  <2>1. ASSUME NEW r \in Ranks, HaloPost(r)
        PROVE  Order!Complete(r)
    <3>1. half[r] <= half[Peer(r)]
      BY <2>1, PeerFacts DEF HaloPost, HaloIInv, TypeOK, Ahead, Quiet
    <3> QED
      BY <2>1, <3>1 DEF HaloPost, Running, Order!Complete, Peer, Order!Peer
  <2>2. ASSUME NEW r \in Ranks, Fail(r)
        PROVE  Order!Raise(r)
    BY <2>2 DEF Fail, Running, Order!Raise
  <2>3. ASSUME NEW r \in Ranks, HaloBegin(r) \/ HaloCompute(r) \/ HaloDeliver(r) \/ HaloFinish(r)
        PROVE  UNCHANGED <<half, raised>>
    BY <2>3 DEF HaloBegin, HaloCompute, HaloDeliver, HaloFinish
  <2> QED
    BY <2>1, <2>2, <2>3 DEF HaloNext, HaloTerminated, control
<1> QED
  BY <1>1, <1>2, HaloInductive, PTL DEF HaloSpec, OrderSpec, Order!Spec

\* Hosts that queue ahead of their devices add nothing to what the devices do:
\* all of the above holds of the two together, wherever the hosts are.
THEOREM HostImplementsHalo == HostSpec => HaloSpec
<1>1. HostInit => HaloInit
  BY DEF HostInit
<1>2. [HostNext]_hostVars => [HaloNext]_control
  <2> SUFFICES ASSUME [HostNext]_hostVars
               PROVE  HaloNext \/ UNCHANGED control
    OBVIOUS
  <2>1. ASSUME NEW r \in Ranks,
               IssueBegin(r) \/ IssueCompute(r) \/ IssueFinish(r) \/ IssuePost(r)
        PROVE  UNCHANGED control
    BY <2>1 DEF IssueBegin, IssueCompute, IssueFinish, IssuePost
  <2>2. ASSUME NEW r \in Ranks, HostFails(r) \/ Execute(r) \/ Transfer(r) \/ TimeOut(r)
        PROVE  HaloNext
    BY <2>2 DEF HostFails, Execute, Transfer, TimeOut, HaloNext
  <2>3. CASE HostTerminated \/ UNCHANGED hostVars
    BY <2>3 DEF HostTerminated, hostVars
  <2> QED
    BY <2>1, <2>2, <2>3 DEF HostNext
<1> QED
  BY <1>1, <1>2, PTL DEF HostSpec, HaloSpec

\* Every half step has a phase.
LEMMA PhaseOfType == \A h \in Nat : PhaseOf(h) \in {"magnetic", "electric"}
BY DEF PhaseOf

\* An exchange is active exactly between begin() and finish().
LEMMA HostNextIInv == HostIInv /\ [HostNext]_hostVars => HostIInv'
<1> SUFFICES ASSUME HostIInv, [HostNext]_hostVars
             PROVE  HostIInv'
  OBVIOUS
<1> USE PhaseOfType DEF HostIInv
<1>1. ASSUME NEW r \in Ranks, IssueBegin(r)
      PROVE  HostIInv'
  BY <1>1 DEF IssueBegin, Hosting, control
<1>2. ASSUME NEW r \in Ranks, IssueCompute(r)
      PROVE  HostIInv'
  BY <1>2 DEF IssueCompute, Hosting, control
<1>3. ASSUME NEW r \in Ranks, IssueFinish(r)
      PROVE  HostIInv'
  BY <1>3 DEF IssueFinish, Hosting, control
<1>4. ASSUME NEW r \in Ranks, IssuePost(r)
      PROVE  HostIInv'
  BY <1>4 DEF IssuePost, Hosting, control
<1>5. ASSUME NEW r \in Ranks, HostFails(r)
      PROVE  HostIInv'
  BY <1>5 DEF HostFails, Fail
<1>6. ASSUME NEW r \in Ranks, Execute(r) \/ Transfer(r)
      PROVE  HostIInv'
  <2>1. UNCHANGED <<raised, host>>
    BY <1>6 DEF Execute, Transfer, HaloBegin, HaloCompute, HaloDeliver, HaloFinish, HaloPost
  <2> QED BY <2>1 DEF host
<1>7. ASSUME NEW r \in Ranks, TimeOut(r)
      PROVE  HostIInv'
  BY <1>7 DEF TimeOut, Fail, host
<1>8. CASE HostTerminated \/ UNCHANGED hostVars
  BY <1>8 DEF HostTerminated, hostVars, control, host
<1> QED
  BY <1>1, <1>2, <1>3, <1>4, <1>5, <1>6, <1>7, <1>8 DEF HostNext

\* Neither TorchDistributedError that guards begin() and finish() against a
\* mismatched exchange is ever raised while the group is whole, in any number of
\* advance() calls and however far a host is ahead of its device.
THEOREM NeverRefusedHolds == HostSpec => []NeverRefused
<1>1. HostInit => HostIInv
  BY DEF HostInit, HaloInit, HostIInv
<1>2. HostIInv => NeverRefused
  BY DEF HostIInv, NeverRefused, Hosting
<1> QED
  BY <1>1, <1>2, HostNextIInv, PTL DEF HostSpec

-----------------------------------------------------------------------------
\* Residues.

\* P is a modulus with more than one residue.
LEMMA PType == P \in Nat \ {0, 1}
BY GridAssumption

\* Division with remainder, as an equation the provers can use.
LEMMA ModSplit ==
  ASSUME NEW x \in Int
  PROVE  \E k \in Int : \E y \in 0..(P - 1) : x = P * k + y /\ x % P = y
<1> DEFINE k == x \div P
           y == x % P
<1>1. y = x - P * k /\ y \in 0..(P - 1) /\ k \in Int
  <2>1. x % P = x - P * (x \div P)
    BY PType, SMT
  <2>2. x % P \in 0..(P - 1) /\ x \div P \in Int
    BY PType, SMT
  <2> QED BY <2>1, <2>2
<1>2. x % P = y
  OBVIOUS
<1> HIDE DEF k, y
<1>3. x = P * k + y
  BY <1>1, PType
<1> QED BY <1>1, <1>2, <1>3

\* A residue lies below the modulus.
LEMMA ModType == \A x \in Int : x % P \in 0..(P - 1)
BY ModSplit

\* Quotient and remainder determine each other.
LEMMA ModUnique ==
  ASSUME NEW x \in Int, NEW k \in Int, NEW y \in 0..(P - 1), x = P * k + y
  PROVE  x % P = y
BY PType

\* Numbers that differ by a multiple of P have one residue.
LEMMA ModCongruent ==
  ASSUME NEW x \in Int, NEW y \in Int, NEW k \in Int, x = y + P * k
  PROVE  x % P = y % P
<1>1. PICK j \in Int, z \in 0..(P - 1) : y = P * j + z /\ y % P = z
  BY ModSplit
<1>2. x = P * (j + k) + z /\ j + k \in Int
  BY <1>1, PType
<1> QED BY <1>1, <1>2, ModUnique

\* Reducing a summand first changes no residue.
LEMMA ModAdd == \A x, d \in Int : ((x % P) + d) % P = (x + d) % P
<1> SUFFICES ASSUME NEW x \in Int, NEW d \in Int PROVE ((x % P) + d) % P = (x + d) % P
  OBVIOUS
<1>1. PICK k \in Int, y \in 0..(P - 1) : x = P * k + y /\ x % P = y
  BY ModSplit
<1>2. x + d = (y + d) + P * k /\ x + d \in Int /\ y + d \in Int
  BY <1>1, PType
<1> QED BY <1>1, <1>2, ModCongruent

\* Nor does reducing a factor.
LEMMA ModTimes == \A p, x \in Int : (p * (x % P)) % P = (p * x) % P
<1> SUFFICES ASSUME NEW p \in Int, NEW x \in Int PROVE (p * (x % P)) % P = (p * x) % P
  OBVIOUS
<1>1. PICK k \in Int, y \in 0..(P - 1) : x = P * k + y /\ x % P = y
  BY ModSplit
<1>2. p * x = p * y + P * (p * k) /\ p * x \in Int /\ p * y \in Int /\ p * k \in Int
  BY <1>1, PType
<1> QED BY <1>1, <1>2, ModCongruent

\* Two phases applied one after the other commute.
LEMMA ModSwap == \A p, q, x \in Int : (p * ((q * x) % P)) % P = (q * ((p * x) % P)) % P
<1> SUFFICES ASSUME NEW p \in Int, NEW q \in Int, NEW x \in Int
             PROVE  (p * ((q * x) % P)) % P = (q * ((p * x) % P)) % P
  OBVIOUS
<1>1. /\ (p * ((q * x) % P)) % P = (p * (q * x)) % P
      /\ (q * ((p * x) % P)) % P = (q * (p * x)) % P
  <2>1. q * x \in Int /\ p * x \in Int
    OBVIOUS
  <2> QED BY <2>1, ModTimes
<1>2. p * (q * x) = q * (p * x)
  OBVIOUS
<1> QED BY <1>1, <1>2

\* The phase 1 leaves a residue alone.
LEMMA ModOnce == \A x \in 0..(P - 1) : (1 * x) % P = x
<1> SUFFICES ASSUME NEW x \in 0..(P - 1) PROVE (1 * x) % P = x
  OBVIOUS
<1>1. 1 * x \in Int /\ 1 * x = P * 0 + x
  BY PType
<1> QED BY <1>1, ModUnique

-----------------------------------------------------------------------------
\* Cells, components and boxes.

\* Indices, grid sizes, and the extent of a component's array.
Vectors == [Axes -> Int]
Sizes == [Axes -> Nat \ {0}]
Limit(n, c, a) == IF a = c[2] THEN n[a] ELSE n[a] + 1

\* The three axes and their cyclic successors.
LEMMA AxisFacts ==
  /\ Axes = {1, 2, 3}
  /\ \A a \in Axes : /\ AxisB(a) \in Axes /\ AxisC(a) \in Axes /\ AxisB(a) # a /\ AxisC(a) # a
                     /\ AxisB(a) # AxisC(a)
                     /\ \A b \in Axes : b \in {a, AxisB(a), AxisC(a)}
                     /\ AxisC(a) = 6 - a - AxisB(a)
<1>1. Axes = {1, 2, 3}
  BY DEF Axes
<1>2. /\ AxisB(1) = 2 /\ AxisB(2) = 3 /\ AxisB(3) = 1
      /\ AxisC(1) = 3 /\ AxisC(2) = 1 /\ AxisC(3) = 2
  BY DEF AxisB, AxisC
<1> QED BY <1>1, <1>2

\* A component is a family and an axis.
LEMMA ComponentFacts ==
  \A c \in Component : /\ c[1] \in {"E", "H"} /\ c[2] \in Axes /\ c = <<c[1], c[2]>>
BY DEF Component

\* Two cells with equal coordinates are one.
LEMMA VectorEqual ==
  ASSUME NEW u \in Vectors, NEW v \in Vectors, \A a \in Axes : u[a] = v[a]
  PROVE  u = v
BY DEF Vectors

\* At replaces one coordinate.
LEMMA AtFacts ==
  ASSUME NEW v \in Vectors, NEW a \in Axes, NEW i \in Int
  PROVE  /\ At(v, a, i) \in Vectors /\ At(v, a, i)[a] = i
         /\ \A b \in Axes : b # a => At(v, a, i)[b] = v[b]
BY DEF At, Vectors

LEMMA AtOther ==
  ASSUME NEW v \in Vectors, NEW a \in Axes, NEW i \in Int, NEW b \in Axes, b # a
  PROVE  At(v, a, i)[b] = v[b]
BY DEF At, Vectors

\* Replacing two coordinates, in either order.
LEMMA AtTwice ==
  ASSUME NEW v \in Vectors, NEW a \in Axes, NEW d \in Axes, a # d, NEW i \in Int,
         NEW j \in Int
  PROVE  /\ At(v, a, i)[d] = v[d] /\ At(v, d, j)[a] = v[a]
         /\ At(At(v, a, i), d, j) = At(At(v, d, j), a, i)
BY DEF At, Vectors

\* Shift moves one coordinate.
LEMMA ShiftFacts ==
  ASSUME NEW v \in Vectors, NEW a \in Axes, NEW i \in Int
  PROVE  /\ Shift(v, a, i) \in Vectors
         /\ \A b \in Axes : Shift(v, a, i)[b] = IF b = a THEN v[a] + i ELSE v[b]
BY DEF Shift, Vectors

\* Local and global indices of a view are inverse to each other.
LEMMA GlobalFacts ==
  ASSUME NEW b, b.off \in Vectors, NEW v \in Vectors
  PROVE  /\ Global(b, v) \in Vectors /\ Local(b, v) \in Vectors
         /\ \A a \in Axes : Global(b, v)[a] = v[a] + b.off[a] /\ Local(b, v)[a] = v[a] - b.off[a]
         /\ Global(b, Local(b, v)) = v /\ Local(b, Global(b, v)) = v
<1>1. /\ Global(b, v) \in Vectors /\ Local(b, v) \in Vectors
      /\ \A a \in Axes : Global(b, v)[a] = v[a] + b.off[a] /\ Local(b, v)[a] = v[a] - b.off[a]
  BY DEF Global, Local, Vectors, Axes
<1>2. Global(b, Local(b, v)) \in Vectors /\ Local(b, Global(b, v)) \in Vectors
  BY <1>1 DEF Global, Local, Vectors, Axes
<1>3. \A a \in Axes : Global(b, Local(b, v))[a] = v[a] /\ Local(b, Global(b, v))[a] = v[a]
  BY <1>1 DEF Global, Local, Vectors, Axes
<1> QED BY <1>1, <1>2, <1>3, VectorEqual

\* The cells of an array, coordinate by coordinate.
LEMMA CellFacts ==
  ASSUME NEW n \in Sizes, NEW c \in Component
  PROVE  \A v : v \in Cells(n, c) <=> /\ v \in Vectors
                                      /\ \A a \in Axes : 0 <= v[a] /\ v[a] < Limit(n, c, a)
<1> DEFINE s == [a \in Axes |-> Limit(n, c, a)]
<1>0. s \in Sizes
  BY ComponentFacts DEF Limit, Sizes
<1>1. Cells(n, c) = (0..(s[1] - 1)) \X (0..(s[2] - 1)) \X (0..(s[3] - 1))
  <2>1. Shape(Serial(n), c) = s
    BY DEF Shape, Serial, Limit
  <2> QED BY <2>1 DEF Cells
<1> HIDE DEF s
<1>2. ASSUME NEW v, v \in (0..(s[1] - 1)) \X (0..(s[2] - 1)) \X (0..(s[3] - 1))
      PROVE  v \in Vectors /\ \A a \in Axes : 0 <= v[a] /\ v[a] < s[a]
  BY <1>0, <1>2 DEF Vectors, Axes, Sizes
<1>3. ASSUME NEW v, v \in Vectors, \A a \in Axes : 0 <= v[a] /\ v[a] < s[a]
      PROVE  v \in (0..(s[1] - 1)) \X (0..(s[2] - 1)) \X (0..(s[3] - 1))
  BY <1>0, <1>3 DEF Vectors, Axes, Sizes
<1> QED BY <1>1, <1>2, <1>3 DEF s

\* The boxes of a partition: size and offset along the split axis.
LEMMA BoxFacts ==
  ASSUME NEW p \in Partitions, NEW r \in {0, 1}
  PROVE  /\ p.n \in Sizes /\ p.axis \in Axes /\ p.cut \in Nat
         /\ 2 <= p.cut /\ p.cut <= p.n[p.axis] - 2
         /\ Box(p, r).n \in Sizes /\ Box(p, r).off \in Vectors /\ Box(p, r).whole = p.n
         /\ \A a \in Axes : Box(p, r).n[a] = IF a # p.axis THEN p.n[a]
                                             ELSE IF r = 0 THEN p.cut ELSE p.n[a] - p.cut
         /\ \A a \in Axes : Box(p, r).off[a] = IF a = p.axis /\ r = 1 THEN p.cut ELSE 0
         /\ \A a \in Axes : Box(p, r).at[a] = IF a = p.axis THEN r ELSE 0
<1>1. /\ p.n \in Sizes /\ p.axis \in Axes /\ p.cut \in Nat
      /\ 2 <= p.cut /\ p.cut <= p.n[p.axis] - 2
  BY PartitionAssumption DEF Sizes
<1>2. [p.n EXCEPT ![p.axis] = IF r = 0 THEN p.cut ELSE p.n[p.axis] - p.cut] \in Sizes
  BY <1>1 DEF Sizes
<1> QED BY <1>1, <1>2 DEF Box, RankLocal, Zero, Vectors, Sizes

\* The undivided grid is the view whose local indices are global.
LEMMA WholeFacts ==
  ASSUME NEW n \in Sizes
  PROVE  /\ Serial(n).n = n /\ Serial(n).off \in Vectors /\ Serial(n).whole = n
         /\ \A a \in Axes : Serial(n).off[a] = 0 /\ Serial(n).at[a] = 0
         /\ \A v \in Vectors : Global(Serial(n), v) = v /\ Local(Serial(n), v) = v
<1>1. /\ Serial(n).n = n /\ Serial(n).off \in Vectors /\ Serial(n).whole = n
      /\ \A a \in Axes : Serial(n).off[a] = 0 /\ Serial(n).at[a] = 0
  BY DEF Serial, Zero, Vectors
<1>2. ASSUME NEW v \in Vectors
      PROVE  Global(Serial(n), v) = v /\ Local(Serial(n), v) = v
  <2>1. \A a \in Axes : v[a] \in Int
    BY DEF Vectors
  <2> QED BY <1>1, <2>1, GlobalFacts, VectorEqual
<1> QED BY <1>1, <1>2

-----------------------------------------------------------------------------
\* Boundary synchronisation of one axis.

\* The plane a wrap fills, and the one it copies.
Values == 0..(P - 1)
To(b, c, a) == IF c[1] = "E" THEN b.n[a] ELSE 0
From(b, c, a) == IF c[1] = "E" THEN 0 ELSE b.n[a]

\* The phase of a wrap is a residue, a Bloch factor or its conjugate.
LEMMA WrapPhaseType ==
  ASSUME NEW f, NEW a \in Axes
  PROVE  WrapPhase(f, a) \in Int
<1>1. \E u \in 1..(P - 1) : (u * Bloch[a]) % P = 1
  BY GridAssumption
<1>2. Conjugate(Bloch[a]) \in 1..(P - 1)
  BY <1>1 DEF Conjugate
<1> QED BY <1>2, GridAssumption, PType DEF WrapPhase

\* One axis of a wrap: the far plane takes the phased near plane.
LEMMA SyncAxisFacts ==
  ASSUME NEW b, b.n \in Sizes, NEW c \in Component, NEW f \in [Cells(b.n, c) -> Values],
         NEW a \in Axes, a # c[2], NEW skip, skip # a
  PROVE  /\ SyncAxis(f, b, c, a, skip) \in [Cells(b.n, c) -> Values]
         /\ \A v \in Cells(b.n, c) :
              /\ At(v, a, From(b, c, a)) \in Cells(b.n, c)
              /\ SyncAxis(f, b, c, a, skip)[v] =
                   IF v[a] = To(b, c, a)
                   THEN (WrapPhase(c[1], a) * f[At(v, a, From(b, c, a))]) % P ELSE f[v]
<1>1. /\ a \notin {c[2], skip}
      /\ SyncAxis(f, b, c, a, skip) =
        [v \in Cells(b.n, c) |->
              IF v[a] = To(b, c, a)
              THEN (WrapPhase(c[1], a) * f[At(v, a, From(b, c, a))]) % P ELSE f[v]]
  BY DEF SyncAxis, To, From
<1>2. ASSUME NEW v \in Cells(b.n, c)
      PROVE  /\ At(v, a, From(b, c, a)) \in Cells(b.n, c)
             /\ (WrapPhase(c[1], a) * f[At(v, a, From(b, c, a))]) % P \in Values
  <2>0. /\ v \in Vectors /\ From(b, c, a) \in Int /\ 0 <= From(b, c, a)
        /\ From(b, c, a) <= b.n[a]
    BY CellFacts DEF From, Sizes
  <2>1. At(v, a, From(b, c, a)) \in Vectors
    BY <2>0, AtFacts
  <2>2. ASSUME NEW k \in Axes
        PROVE  /\ 0 <= At(v, a, From(b, c, a))[k]
               /\ At(v, a, From(b, c, a))[k] < Limit(b.n, c, k)
    <3>1. At(v, a, From(b, c, a))[k] = IF k = a THEN From(b, c, a) ELSE v[k]
      <4>1. v \in Vectors /\ From(b, c, a) \in Int
        BY <2>0
      <4>2. /\ At(v, a, From(b, c, a))[a] = From(b, c, a)
            /\ \A d \in Axes : d # a => At(v, a, From(b, c, a))[d] = v[d]
        BY <4>1, AtFacts
      <4> QED BY <4>2
    <3>2. 0 <= v[k] /\ v[k] < Limit(b.n, c, k)
      BY CellFacts
    <3>3. b.n[k] \in Int /\ Limit(b.n, c, a) = b.n[a] + 1
      BY <1>1 DEF Limit, Sizes
    <3>4. CASE k = a
      BY <2>0, <3>1, <3>3, <3>4
    <3>5. CASE k # a
      BY <3>1, <3>2, <3>5
    <3> QED BY <3>4, <3>5
  <2>3. At(v, a, From(b, c, a)) \in Cells(b.n, c)
    BY <2>1, <2>2, CellFacts
  <2>4. f[At(v, a, From(b, c, a))] \in Int
    BY <2>3, PType DEF Values
  <2>5. WrapPhase(c[1], a) * f[At(v, a, From(b, c, a))] \in Int
    BY <2>4, WrapPhaseType
  <2> QED BY <2>3, <2>5, ModType DEF Values
<1> QED BY <1>1, <1>2

\* The component's own axis and the skipped one are not wrapped.
LEMMA SyncAxisSkips ==
  ASSUME NEW f, NEW b, NEW c, NEW a, NEW skip, a \in {c[2], skip}
  PROVE  SyncAxis(f, b, c, a, skip) = f
BY DEF SyncAxis

\* The two wraps of a component commute, so it does not matter which of them
\* the halo stands for.
LEMMA WrapsCommute ==
  ASSUME NEW b, b.n \in Sizes, NEW c \in Component, NEW f \in [Cells(b.n, c) -> Values],
         NEW a \in Axes, NEW d \in Axes, a # d, c[2] \notin {a, d}, NEW s,
         s \notin {a, d}
  PROVE  SyncAxis(SyncAxis(f, b, c, a, s), b, c, d, s)
           = SyncAxis(SyncAxis(f, b, c, d, s), b, c, a, s)
<1> DEFINE fa == SyncAxis(f, b, c, a, s)
           fd == SyncAxis(f, b, c, d, s)
           fad == SyncAxis(fa, b, c, d, s)
           fda == SyncAxis(fd, b, c, a, s)
           C == Cells(b.n, c)
           wa == WrapPhase(c[1], a)
           wd == WrapPhase(c[1], d)
           ta == To(b, c, a)
           td == To(b, c, d)
           A(v) == At(v, a, From(b, c, a))
           D(v) == At(v, d, From(b, c, d))
<1>1. /\ fa \in [C -> Values] /\ \A v \in C : A(v) \in C /\ fa[v] = IF v[a] = ta THEN (wa * f[A(v)]) % P ELSE f[v]
  BY SyncAxisFacts
<1>2. /\ fd \in [C -> Values] /\ \A v \in C : D(v) \in C /\ fd[v] = IF v[d] = td THEN (wd * f[D(v)]) % P ELSE f[v]
  BY SyncAxisFacts
<1> HIDE DEF fa, fd
<1>3. /\ fad \in [C -> Values]
      /\ \A v \in C : fad[v] = IF v[d] = td THEN (wd * fa[D(v)]) % P ELSE fa[v]
  BY <1>1, SyncAxisFacts
<1>4. /\ fda \in [C -> Values]
      /\ \A v \in C : fda[v] = IF v[a] = ta THEN (wa * fd[A(v)]) % P ELSE fd[v]
  BY <1>2, SyncAxisFacts
<1>5. ASSUME NEW v \in C
      PROVE  A(D(v)) = D(A(v)) /\ A(v)[d] = v[d] /\ D(v)[a] = v[a]
  <2>0. v \in Vectors /\ From(b, c, a) \in Int /\ From(b, c, d) \in Int
    BY CellFacts DEF From, Sizes
  <2> QED BY <2>0, AtTwice
<1>6. wa \in Int /\ wd \in Int
  BY WrapPhaseType
<1> HIDE DEF wa, wd, ta, td, A, D, fad, fda
<1>7. ASSUME NEW v \in C PROVE fad[v] = fda[v]
  <2>0. /\ A(v) \in C /\ D(v) \in C /\ A(D(v)) \in C /\ D(A(v)) = A(D(v))
        /\ A(v)[d] = v[d] /\ D(v)[a] = v[a]
    BY <1>1, <1>2, <1>5
  <2>1. /\ fad[v] = IF v[d] = td THEN (wd * fa[D(v)]) % P ELSE fa[v]
        /\ fa[v] = IF v[a] = ta THEN (wa * f[A(v)]) % P ELSE f[v]
        /\ fa[D(v)] = IF v[a] = ta THEN (wa * f[A(D(v))]) % P ELSE f[D(v)]
    BY <2>0, <1>1, <1>3
  <2>2. /\ fda[v] = IF v[a] = ta THEN (wa * fd[A(v)]) % P ELSE fd[v]
        /\ fd[v] = IF v[d] = td THEN (wd * f[D(v)]) % P ELSE f[v]
        /\ fd[A(v)] = IF v[d] = td THEN (wd * f[A(D(v))]) % P ELSE f[A(v)]
    BY <2>0, <1>2, <1>4
  <2>3. f[A(D(v))] \in Int
    BY <2>0, PType DEF Values
  <2>4. (wd * ((wa * f[A(D(v))]) % P)) % P = (wa * ((wd * f[A(D(v))]) % P)) % P
    BY <2>3, <1>6, ModSwap
  <2> QED BY <2>1, <2>2, <2>4
<1>8. fad = fda
  BY <1>3, <1>4, <1>7
<1> QED BY <1>8 DEF fad, fda, fa, fd

\* The wraps of a component one after the other, in any order.
LEMMA SyncIsTwoWraps ==
  ASSUME NEW b, b.n \in Sizes, NEW c \in Component, NEW f \in [Cells(b.n, c) -> Values],
         NEW a \in Axes, NEW d \in Axes, a # d, c[2] \notin {a, d}, NEW s,
         s \in {0, c[2]}
  PROVE  SyncComponent(f, b, c, s) = SyncAxis(SyncAxis(f, b, c, a, s), b, c, d, s)
<1>0. c[2] \in Axes /\ s \notin {a, d} /\ Axes = {1, 2, 3} /\ 0 \notin Axes
  BY ComponentFacts DEF Axes
<1>1. \/ a = 1 /\ d = 2 /\ c[2] = 3
      \/ a = 1 /\ d = 3 /\ c[2] = 2
      \/ a = 2 /\ d = 3 /\ c[2] = 1
      \/ a = 2 /\ d = 1 /\ c[2] = 3
      \/ a = 3 /\ d = 1 /\ c[2] = 2
      \/ a = 3 /\ d = 2 /\ c[2] = 1
  BY <1>0
<1>2. SyncComponent(f, b, c, s) = SyncAxis(SyncAxis(f, b, c, a, s), b, c, d, s)
        \/ SyncComponent(f, b, c, s) = SyncAxis(SyncAxis(f, b, c, d, s), b, c, a, s)
  BY <1>1, SyncAxisSkips DEF SyncComponent
<1> QED BY <1>0, <1>2, WrapsCommute

\* With the split axis left out only one wrap of a transverse component is left.
LEMMA SyncIsOneWrap ==
  ASSUME NEW b, b.n \in Sizes, NEW c \in Component, NEW f \in [Cells(b.n, c) -> Values],
         NEW a \in Axes, NEW d \in Axes, a # d, c[2] \notin {a, d}
  PROVE  SyncComponent(f, b, c, d) = SyncAxis(f, b, c, a, d)
<1>0. c[2] \in Axes /\ Axes = {1, 2, 3}
  BY ComponentFacts DEF Axes
<1>1. \/ a = 1 /\ d = 2 /\ c[2] = 3
      \/ a = 1 /\ d = 3 /\ c[2] = 2
      \/ a = 2 /\ d = 3 /\ c[2] = 1
      \/ a = 2 /\ d = 1 /\ c[2] = 3
      \/ a = 3 /\ d = 1 /\ c[2] = 2
      \/ a = 3 /\ d = 2 /\ c[2] = 1
  BY <1>0
<1> QED BY <1>1, SyncAxisSkips DEF SyncComponent

-----------------------------------------------------------------------------
\* A slab wraps as the grid does.

\* BoxFacts for the slabs of the running partition.
LEMMA SlabFacts ==
  ASSUME split \in Partitions, NEW r \in {0, 1}
  PROVE  /\ split.n \in Sizes /\ split.axis \in Axes /\ split.cut \in Nat
         /\ 2 <= split.cut /\ split.cut <= split.n[split.axis] - 2
         /\ Slab(r).n \in Sizes /\ Slab(r).off \in Vectors /\ Slab(r).whole = split.n
         /\ \A a \in Axes : Slab(r).n[a] = IF a # split.axis THEN split.n[a]
                                           ELSE IF r = 0 THEN split.cut ELSE split.n[a] - split.cut
         /\ \A a \in Axes : Slab(r).off[a] = IF a = split.axis /\ r = 1 THEN split.cut ELSE 0
         /\ \A a \in Axes : Slab(r).at[a] = IF a = split.axis THEN r ELSE 0
BY BoxFacts DEF Slab

\* WholeFacts for its undivided grid.
LEMMA WholeGridFacts ==
  ASSUME split \in Partitions
  PROVE  /\ Whole.n = split.n /\ Whole.off \in Vectors /\ Whole.whole = split.n
         /\ \A a \in Axes : Whole.off[a] = 0 /\ Whole.at[a] = 0
         /\ \A v \in Vectors : Global(Whole, v) = v /\ Local(Whole, v) = v
<1>1. split.n \in Sizes
  BY PartitionAssumption DEF Sizes
<1> QED BY <1>1, WholeFacts DEF Whole

\* A cell of a slab is a cell of the grid.
LEMMA GlobalInside ==
  ASSUME split \in Partitions, NEW r \in {0, 1}, NEW c \in Component,
         NEW v \in Cells(Slab(r).n, c)
  PROVE  /\ v \in Vectors /\ Global(Slab(r), v) \in Cells(split.n, c)
         /\ \A a \in Axes : Global(Slab(r), v)[a] = v[a] + Slab(r).off[a]
<1>1. /\ v \in Vectors /\ \A a \in Axes : 0 <= v[a] /\ v[a] < Limit(Slab(r).n, c, a)
  BY SlabFacts, CellFacts
<1>2. /\ Global(Slab(r), v) \in Vectors
      /\ \A a \in Axes : Global(Slab(r), v)[a] = v[a] + Slab(r).off[a]
  BY <1>1, SlabFacts, GlobalFacts
<1>3. ASSUME NEW a \in Axes
      PROVE  0 <= Global(Slab(r), v)[a] /\ Global(Slab(r), v)[a] < Limit(split.n, c, a)
  <2>1. v[a] \in Int /\ split.n[a] \in Int
    BY <1>1, SlabFacts DEF Vectors, Sizes
  <2> QED BY <1>1, <1>2, <2>1, SlabFacts DEF Limit
<1> QED BY <1>1, <1>2, <1>3, SlabFacts, CellFacts

\* Away from the split axis a slab has the coordinates of the whole grid.
LEMMA GlobalAt ==
  ASSUME split \in Partitions, NEW r \in {0, 1}, NEW v \in Vectors,
         NEW a \in Axes, a # split.axis, NEW i \in Int
  PROVE  Global(Slab(r), At(v, a, i)) = At(Global(Slab(r), v), a, i)
<1>0. Slab(r).off \in Vectors /\ Slab(r).off[a] = 0
  BY SlabFacts
<1>1. At(v, a, i) \in Vectors /\ Global(Slab(r), v) \in Vectors
  BY <1>0, AtFacts, GlobalFacts
<1>2. /\ Global(Slab(r), At(v, a, i)) \in Vectors
      /\ At(Global(Slab(r), v), a, i) \in Vectors
  BY <1>0, <1>1, AtFacts, GlobalFacts
<1>3. ASSUME NEW k \in Axes
      PROVE  Global(Slab(r), At(v, a, i))[k] = At(Global(Slab(r), v), a, i)[k]
  <2>1. Global(Slab(r), At(v, a, i))[k] = At(v, a, i)[k] + Slab(r).off[k]
    BY <1>0, <1>1, GlobalFacts
  <2>2. At(v, a, i)[k] = IF k = a THEN i ELSE v[k]
    BY AtFacts
  <2>3. At(Global(Slab(r), v), a, i)[k] = IF k = a THEN i ELSE Global(Slab(r), v)[k]
    BY <1>1, AtFacts
  <2>4. Global(Slab(r), v)[k] = v[k] + Slab(r).off[k]
    BY <1>0, GlobalFacts
  <2> QED BY <1>0, <2>1, <2>2, <2>3, <2>4
<1> QED BY <1>2, <1>3, VectorEqual

\* A wrap along another axis than the split one does the same to a slab.
LEMMA SlabWrap ==
  ASSUME split \in Partitions, NEW r \in {0, 1}, NEW c \in Component,
         NEW f \in [Cells(Slab(r).n, c) -> Values],
         NEW F \in [Cells(split.n, c) -> Values],
         \A v \in Cells(Slab(r).n, c) : ~Ghost(r, c, v) => f[v] = F[Global(Slab(r), v)],
         NEW a \in Axes, a \notin {c[2], split.axis}, NEW s, s # a, NEW q, q # a
  PROVE  \A v \in Cells(Slab(r).n, c) :
           ~Ghost(r, c, v) => SyncAxis(f, Slab(r), c, a, s)[v]
                                = SyncAxis(F, Whole, c, a, q)[Global(Slab(r), v)]
<1> SUFFICES ASSUME NEW v \in Cells(Slab(r).n, c), ~Ghost(r, c, v)
             PROVE  SyncAxis(f, Slab(r), c, a, s)[v] = SyncAxis(F, Whole, c, a, q)[Global(Slab(r), v)]
  OBVIOUS
<1> DEFINE g == Global(Slab(r), v)
           i == From(Slab(r), c, a)
           u == At(v, a, i)
<1>1. /\ Slab(r).n \in Sizes /\ Whole.n \in Sizes /\ Whole.n = split.n
      /\ Slab(r).n[a] = split.n[a] /\ Slab(r).off[a] = 0 /\ split.axis \in Axes
  BY SlabFacts, WholeGridFacts
<1>2. v \in Vectors /\ g \in Cells(split.n, c) /\ g[a] = v[a]
  <2>1. v \in Vectors /\ g \in Cells(split.n, c) /\ g[a] = v[a] + Slab(r).off[a]
    BY GlobalInside
  <2> QED BY <1>1, <2>1 DEF Vectors
<1>3. i \in Int /\ From(Whole, c, a) = i /\ To(Whole, c, a) = To(Slab(r), c, a)
  BY <1>1 DEF From, To, Sizes
<1>4. SyncAxis(f, Slab(r), c, a, s)[v] =
        (IF v[a] = To(Slab(r), c, a) THEN (WrapPhase(c[1], a) * f[u]) % P ELSE f[v])
      /\ u \in Cells(Slab(r).n, c)
  <2>1. a # c[2] /\ s # a
    OBVIOUS
  <2>2. SyncAxis(f, Slab(r), c, a, s)[v] =
          IF v[a] = To(Slab(r), c, a) THEN (WrapPhase(c[1], a) * f[u]) % P ELSE f[v]
    BY <1>1, <2>1, SyncAxisFacts
  <2>3. u \in Cells(Slab(r).n, c)
    BY <1>1, <2>1, SyncAxisFacts
  <2> QED BY <2>2, <2>3
<1>5. SyncAxis(F, Whole, c, a, q)[g] =
        (IF g[a] = To(Whole, c, a) THEN (WrapPhase(c[1], a) * F[At(g, a, i)]) % P ELSE F[g])
  BY <1>1, <1>2, <1>3, SyncAxisFacts
<1>6. Global(Slab(r), u) = At(g, a, i)
  BY <1>2, <1>3, GlobalAt
<1>7. ~Ghost(r, c, u)
  <2>1. u[split.axis] = v[split.axis]
    <3>1. a # split.axis
      OBVIOUS
    <3>2. v \in Vectors /\ i \in Int /\ split.axis \in Axes
      BY <1>1, <1>2, <1>3
    <3> HIDE DEF g, i
    <3> QED BY <3>1, <3>2, AtOther
  <2> QED BY <2>1 DEF Ghost
<1> QED BY <1>2, <1>3, <1>4, <1>5, <1>6, <1>7

\* The third axis beside the split one and a component's own.
LEMMA ThirdAxis ==
  ASSUME split \in Partitions, NEW c \in Component, c[2] # split.axis
  PROVE  \E t \in Axes : t # split.axis /\ t # c[2]
<1>1. Axes = {1, 2, 3} /\ c[2] \in Axes /\ split.axis \in Axes
  BY SlabFacts, ComponentFacts DEF Axes
<1> QED BY <1>1

\* The other two axes of any axis.
LEMMA OtherAxes ==
  ASSUME NEW a \in Axes
  PROVE  \E t \in Axes, u \in Axes : t # u /\ a \notin {t, u}
BY DEF Axes

\* Where the single-process solver wraps the split axis no slab has an interior cell.
LEMMA InteriorNotWrapped ==
  ASSUME split \in Partitions, NEW r \in {0, 1}, NEW c \in Component, c[2] # split.axis,
         NEW v \in Cells(Slab(r).n, c), ~Ghost(r, c, v)
  PROVE  Global(Slab(r), v)[split.axis] # To(Whole, c, split.axis)
<1>1. /\ v \in Vectors /\ 0 <= v[split.axis]
      /\ v[split.axis] < Limit(Slab(r).n, c, split.axis)
      /\ Global(Slab(r), v)[split.axis] = v[split.axis] + Slab(r).off[split.axis]
  BY SlabFacts, CellFacts, GlobalInside
<1>2. v[split.axis] # (IF c[1] = "H" THEN 0 ELSE Slab(r).n[split.axis])
  BY DEF Ghost, ReceiveIndex
<1>3. c[1] \in {"E", "H"} /\ v[split.axis] \in Int /\ split.n[split.axis] \in Int
  BY <1>1, ComponentFacts, SlabFacts DEF Vectors, Sizes
<1> QED BY <1>1, <1>2, <1>3, SlabFacts, WholeGridFacts DEF Limit, To

\* Begin() wraps the interior of a slab as the single-process solver does.
LEMMA SlabSynced ==
  ASSUME split \in Partitions, NEW r \in {0, 1}, NEW c \in Component,
         NEW f \in [Cells(Slab(r).n, c) -> Values],
         NEW F \in [Cells(split.n, c) -> Values],
         \A v \in Cells(Slab(r).n, c) : ~Ghost(r, c, v) => f[v] = F[Global(Slab(r), v)]
  PROVE  \A v \in Cells(Slab(r).n, c) :
           ~Ghost(r, c, v) => SyncComponent(f, Slab(r), c, split.axis)[v]
                                = SyncComponent(F, Whole, c, 0)[Global(Slab(r), v)]
<1>1. /\ Slab(r).n \in Sizes /\ Whole.n \in Sizes /\ Whole.n = split.n
      /\ split.axis \in Axes
      /\ 0 \notin Axes /\ c[2] \in Axes
  BY SlabFacts, WholeGridFacts, ComponentFacts DEF Axes
<1>2. CASE c[2] = split.axis
  <2>1. PICK t \in Axes, u \in Axes : t # u /\ c[2] \notin {t, u}
    BY <1>1, OtherAxes
  <2>2. SyncComponent(f, Slab(r), c, split.axis)
          = SyncAxis(SyncAxis(f, Slab(r), c, t, split.axis), Slab(r), c, u, split.axis)
    BY <1>1, <1>2, <2>1, SyncIsTwoWraps
  <2>3. SyncComponent(F, Whole, c, 0) = SyncAxis(SyncAxis(F, Whole, c, t, 0), Whole, c, u, 0)
    BY <1>1, <2>1, SyncIsTwoWraps
  <2>4. \A v \in Cells(Slab(r).n, c) :
           ~Ghost(r, c, v) => SyncAxis(f, Slab(r), c, t, split.axis)[v]
                                = SyncAxis(F, Whole, c, t, 0)[Global(Slab(r), v)]
    BY <1>1, <1>2, <2>1, SlabWrap
  <2>5. /\ SyncAxis(f, Slab(r), c, t, split.axis) \in [Cells(Slab(r).n, c) -> Values]
        /\ SyncAxis(F, Whole, c, t, 0) \in [Cells(split.n, c) -> Values]
    BY <1>1, <1>2, <2>1, SyncAxisFacts
  <2> QED BY <1>1, <1>2, <2>1, <2>2, <2>3, <2>4, <2>5, SlabWrap
<1>3. CASE c[2] # split.axis
  <2>1. PICK t \in Axes : t # split.axis /\ t # c[2]
    BY <1>3, ThirdAxis
  <2>2. SyncComponent(f, Slab(r), c, split.axis) = SyncAxis(f, Slab(r), c, t, split.axis)
    BY <1>1, <1>3, <2>1, SyncIsOneWrap
  <2>3. SyncComponent(F, Whole, c, 0)
          = SyncAxis(SyncAxis(F, Whole, c, t, 0), Whole, c, split.axis, 0)
    BY <1>1, <1>3, <2>1, SyncIsTwoWraps
  <2>4. SyncAxis(F, Whole, c, t, 0) \in [Cells(split.n, c) -> Values]
    BY <1>1, <2>1, SyncAxisFacts
  <2>5. ASSUME NEW v \in Cells(Slab(r).n, c), ~Ghost(r, c, v)
        PROVE  SyncComponent(F, Whole, c, 0)[Global(Slab(r), v)]
                 = SyncAxis(F, Whole, c, t, 0)[Global(Slab(r), v)]
    <3>1. Global(Slab(r), v) \in Cells(Whole.n, c)
      BY <1>1, GlobalInside
    <3>2. Global(Slab(r), v)[split.axis] # To(Whole, c, split.axis)
      BY <1>3, <2>5, InteriorNotWrapped
    <3> QED BY <1>1, <1>3, <2>3, <2>4, <3>1, <3>2, SyncAxisFacts
  <2>6. ASSUME NEW v \in Cells(Slab(r).n, c), ~Ghost(r, c, v)
        PROVE  SyncAxis(f, Slab(r), c, t, split.axis)[v]
                 = SyncAxis(F, Whole, c, t, 0)[Global(Slab(r), v)]
    BY <1>1, <1>3, <2>1, <2>6, SlabWrap
  <2> QED BY <2>2, <2>5, <2>6
<1> QED BY <1>2, <1>3

-----------------------------------------------------------------------------
\* The packed plane is the image the peer needs.

\* There are two ranks and each is the other's peer.
LEMMA RankFacts ==
  /\ Ranks = {0, 1}
  /\ \A r \in Ranks : Peer(r) = 1 - r /\ Peer(r) \in Ranks /\ Peer(Peer(r)) = r
BY DEF Ranks, Peer

\* A cell of the exchanged plane, put at an index of the split axis, is a cell
\* of the slab.
LEMMA PlaneFacts ==
  ASSUME split \in Partitions, NEW c \in Component, c[2] # split.axis,
         NEW v \in Plane(split, c),
         NEW r \in {0, 1}, NEW i \in 0..Slab(r).n[split.axis]
  PROVE  /\ v \in Vectors /\ v[split.axis] = 0
         /\ At(v, split.axis, i) \in Cells(Slab(r).n, c)
<1>1. v \in Cells(split.n, c) /\ v[split.axis] = 0
  BY DEF Plane
<1>2. v \in Vectors /\ \A a \in Axes : 0 <= v[a] /\ v[a] < Limit(split.n, c, a)
  BY <1>1, CellFacts, SlabFacts
<1>3. i \in Int /\ Slab(r).n[split.axis] \in Int
  BY SlabFacts DEF Sizes
<1>4. At(v, split.axis, i) \in Vectors
      /\ At(v, split.axis, i)[split.axis] = i
      /\ \A a \in Axes : a # split.axis => At(v, split.axis, i)[a] = v[a]
  <2>1. split.axis \in Axes
    BY SlabFacts
  <2> QED BY <1>2, <1>3, <2>1, AtFacts, AtOther
<1>5. ASSUME NEW a \in Axes
      PROVE  /\ 0 <= At(v, split.axis, i)[a]
             /\ At(v, split.axis, i)[a] < Limit(Slab(r).n, c, a)
  BY <1>2, <1>3, <1>4, SlabFacts DEF Limit
<1> QED BY <1>1, <1>2, <1>4, <1>5, SlabFacts, CellFacts

\* What a rank sends is an interior plane, and what it receives is the peer's
\* image of it.
LEMMA IndexFacts ==
  ASSUME split \in Partitions, NEW r \in {0, 1}, NEW e \in {"E", "H"}
  PROVE  /\ SendIndex(r, e) \in 0..Slab(r).n[split.axis]
         /\ ReceiveIndex(r, e) \in 0..Slab(r).n[split.axis]
         /\ SendIndex(r, e) # ReceiveIndex(r, e)
         /\ Slab(r).n[split.axis] \in Nat \ {0}
BY SlabFacts DEF SendIndex, ReceiveIndex, Sizes

\* The packed plane, phase included, is what the single-process solver has in
\* the plane the peer lacks: begin() and finish() pair the right planes.
LEMMA PackedIsImage ==
  ASSUME split \in Partitions, NEW r \in {0, 1}, NEW c \in Component, c[2] # split.axis,
         NEW f \in [Cells(Slab(r).n, c) -> Values],
         NEW F \in [Cells(split.n, c) -> Values],
         \A v \in Cells(Slab(r).n, c) : ~Ghost(r, c, v) => f[v] = F[Global(Slab(r), v)],
         NEW v \in Plane(split, c)
  PROVE  (WrapFactor(r, c[1])
            * SyncComponent(f, Slab(r), c, split.axis)[At(v, split.axis, SendIndex(r, c[1]))]) % P
         = SyncComponent(F, Whole, c, 0)
             [Global(Slab(Peer(r)), At(v, split.axis, ReceiveIndex(Peer(r), c[1])))]
<1> DEFINE x  == split.axis
           q  == Peer(r)
           u  == At(v, x, SendIndex(r, c[1]))
           w  == At(v, x, ReceiveIndex(q, c[1]))
           gs == Global(Slab(r), u)
           gr == Global(Slab(q), w)
           y  == SyncComponent(f, Slab(r), c, x)
           Y  == SyncComponent(F, Whole, c, 0)
<1>0. /\ c[1] \in {"E", "H"} /\ x \in Axes /\ q \in {0, 1} /\ q = 1 - r
      /\ Slab(r).n \in Sizes /\ Whole.n \in Sizes /\ Whole.n = split.n /\ 0 \notin Axes
  BY SlabFacts, WholeGridFacts, ComponentFacts, RankFacts DEF Axes
<1>1. u \in Cells(Slab(r).n, c) /\ w \in Cells(Slab(q).n, c) /\ v \in Vectors
  BY <1>0, PlaneFacts, IndexFacts
<1>2. u[x] = SendIndex(r, c[1]) /\ w[x] = ReceiveIndex(q, c[1])
      /\ \A a \in Axes : a # x => u[a] = v[a] /\ w[a] = v[a]
  <2>1. SendIndex(r, c[1]) \in Int /\ ReceiveIndex(q, c[1]) \in Int
    BY <1>0, IndexFacts
  <2>2. u[x] = SendIndex(r, c[1]) /\ \A a \in Axes : a # x => u[a] = v[a]
    <3> HIDE DEF x, q
    <3>1. u[x] = SendIndex(r, c[1])
      BY <1>0, <1>1, <2>1, AtFacts
    <3>2. ASSUME NEW a \in Axes, a # x PROVE u[a] = v[a]
      BY <1>0, <1>1, <2>1, <3>2, AtOther
    <3> QED BY <3>1, <3>2
  <2>3. w[x] = ReceiveIndex(q, c[1]) /\ \A a \in Axes : a # x => w[a] = v[a]
    <3> HIDE DEF x, q
    <3>1. w[x] = ReceiveIndex(q, c[1])
      BY <1>0, <1>1, <2>1, AtFacts
    <3>2. ASSUME NEW a \in Axes, a # x PROVE w[a] = v[a]
      BY <1>0, <1>1, <2>1, <3>2, AtOther
    <3> QED BY <3>1, <3>2
  <2> QED BY <2>2, <2>3
<1>3. ~Ghost(r, c, u)
  BY <1>0, <1>2, IndexFacts DEF Ghost
<1> HIDE DEF u, w
<1>4. /\ gs \in Cells(split.n, c) /\ gr \in Cells(split.n, c)
      /\ \A a \in Axes : gs[a] = u[a] + Slab(r).off[a] /\ gr[a] = w[a] + Slab(q).off[a]
  BY <1>0, <1>1, GlobalInside
<1>5. gs \in Vectors /\ gr \in Vectors
  BY <1>0, <1>4, CellFacts
<1>6. \A a \in Axes : a # x => gs[a] = gr[a]
  <2>1. \A a \in Axes : a # x => Slab(r).off[a] = 0 /\ Slab(q).off[a] = 0
    BY <1>0, SlabFacts
  <2> QED BY <1>2, <1>4, <2>1
<1>7. y[u] = Y[gs]
  BY <1>1, <1>3, SlabSynced
<1>8. PICK t \in Axes : t # x /\ t # c[2]
  BY ThirdAxis
<1> DEFINE Z == SyncAxis(F, Whole, c, t, 0)
<1>9. Y = SyncAxis(Z, Whole, c, x, 0)
  BY <1>0, <1>8, SyncIsTwoWraps
<1>10. Z \in [Cells(split.n, c) -> Values]
  BY <1>0, <1>8, SyncAxisFacts
<1>11. /\ Y \in [Cells(split.n, c) -> Values]
       /\ \A g \in Cells(split.n, c) :
            Y[g] = IF g[x] = To(Whole, c, x)
                   THEN (WrapPhase(c[1], x) * Z[At(g, x, From(Whole, c, x))]) % P ELSE Z[g]
  <2> HIDE DEF Z, Y
  <2> QED BY <1>0, <1>9, <1>10, SyncAxisFacts
<1> HIDE DEF Z, Y, y
<1>12. gs[x] # To(Whole, c, x)
  BY <1>1, <1>3, InteriorNotWrapped
<1>13. Y[gs] = Z[gs] /\ Y[gs] \in Values
  BY <1>4, <1>11, <1>12
<1>20. /\ Slab(0).off[x] = 0 /\ Slab(1).off[x] = split.cut
       /\ Slab(0).n[x] = split.cut /\ Slab(1).n[x] = split.n[x] - split.cut
       /\ split.cut \in Int /\ split.n[x] \in Int
  BY <1>0, SlabFacts DEF Sizes
<1>14. CASE (c[1] = "E" /\ r = 1) \/ (c[1] = "H" /\ r = 0)
  <2>1. gs[x] = gr[x]
    BY <1>0, <1>2, <1>4, <1>14, <1>20 DEF SendIndex, ReceiveIndex
  <2>2. gs = gr
    BY <1>5, <1>6, <2>1, VectorEqual
  <2>3. WrapFactor(r, c[1]) = 1
    BY <1>14 DEF WrapFactor
  <2> QED BY <1>7, <1>13, <2>2, <2>3, ModOnce DEF Values, u, w, y, Y
<1>15. CASE (c[1] = "E" /\ r = 0) \/ (c[1] = "H" /\ r = 1)
  <2>1. gr[x] = To(Whole, c, x) /\ gs[x] = From(Whole, c, x)
    BY <1>0, <1>2, <1>4, <1>15, <1>20 DEF SendIndex, ReceiveIndex, To, From
  <2>2. At(gr, x, From(Whole, c, x)) = gs
    <3>1. From(Whole, c, x) \in Int
      BY <1>0, <1>20 DEF From
    <3>2. At(gr, x, From(Whole, c, x)) \in Vectors
          /\ At(gr, x, From(Whole, c, x))[x] = From(Whole, c, x)
          /\ \A a \in Axes : a # x => At(gr, x, From(Whole, c, x))[a] = gr[a]
      BY <1>0, <1>5, <3>1, AtFacts, Zenon
    <3> QED BY <1>5, <1>6, <2>1, <3>2, VectorEqual
  <2>3. WrapFactor(r, c[1]) = WrapPhase(c[1], x)
    BY <1>15 DEF WrapFactor
  <2>4. Y[gr] = (WrapPhase(c[1], x) * Z[gs]) % P
    BY <1>4, <1>11, <2>1, <2>2
  <2> QED BY <1>7, <1>13, <2>3, <2>4 DEF u, w, y, Y
<1> QED BY <1>0, <1>14, <1>15

-----------------------------------------------------------------------------
\* The curl as two differences.

\* The difference along d in the curl that drives c: the component it reads,
\* at two cells.
Remaining(c, d) == 6 - c[2] - d
Driver(c, d) == <<Other(c[1]), Remaining(c, d)>>
High(c, v, d) == IF c[1] = "E" THEN Shift(Shift(v, c[2], 1), d, 1) ELSE Shift(v, Remaining(c, d), -1)
Low(c, v, d) == IF c[1] = "E" THEN Shift(v, c[2], 1) ELSE Shift(Shift(v, Remaining(c, d), -1), d, -1)
Difference(F, c, v, d) == F[Driver(c, d)][High(c, v, d)] - F[Driver(c, d)][Low(c, v, d)]

\* A shift along one axis commutes with a replacement along another.
LEMMA ShiftAt ==
  ASSUME NEW v \in Vectors, NEW a \in Axes, NEW i \in Int
  PROVE  /\ Shift(v, a, i) \in Vectors /\ Shift(v, a, i)[a] = v[a] + i
         /\ \A b \in Axes : b # a => Shift(v, a, i)[b] = v[b]
BY DEF Shift, Vectors

\* Shifts along two axes, coordinate by coordinate.
LEMMA ShiftTwice ==
  ASSUME NEW v \in Vectors, NEW a \in Axes, NEW d \in Axes, a # d, NEW i \in Int,
         NEW j \in Int
  PROVE  Shift(Shift(v, a, i), d, j) = Shift(Shift(v, d, j), a, i)
BY DEF Shift, Vectors

\* Either curl is a weighted sum of two differences of driver components.
LEMMA CurlIsDifferences ==
  ASSUME NEW F, NEW c \in Component, NEW v \in Vectors
  PROVE  Curl(F, c, v) =
           IF c[1] = "E"
           THEN Rate[AxisB(c[2])] * Difference(F, c, v, AxisB(c[2]))
                  - Rate[AxisC(c[2])] * Difference(F, c, v, AxisC(c[2]))
           ELSE Rate[AxisC(c[2])] * Difference(F, c, v, AxisC(c[2]))
                  - Rate[AxisB(c[2])] * Difference(F, c, v, AxisB(c[2]))
<1> DEFINE a == c[2]
           b == AxisB(c[2])
           d == AxisC(c[2])
<1>1. /\ a \in Axes /\ b \in Axes /\ d \in Axes /\ b # d /\ Remaining(c, b) = d
      /\ Remaining(c, d) = b
  BY ComponentFacts, AxisFacts DEF Remaining, Axes
<1>2. Shift(Shift(v, b, -1), d, -1) = Shift(Shift(v, d, -1), b, -1)
  BY <1>1, ShiftTwice
<1>3. CASE c[1] = "E"
  BY <1>1, <1>3 DEF Curl, ElectricCurl, Difference, High, Low, Driver, Other
<1>4. CASE c[1] # "E"
  <2>1. c[1] = "H"
    BY <1>4, ComponentFacts
  <2>2. Curl(F, c, v) = MagneticCurl(F, c[2], v)
    BY <2>1 DEF Curl
  <2>3. Driver(c, d) = <<"E", b>> /\ Driver(c, b) = <<"E", d>>
    BY <1>1, <2>1 DEF Driver, Other
  <2>4. High(c, v, d) = Shift(v, b, -1) /\ High(c, v, b) = Shift(v, d, -1)
    BY <1>1, <2>1 DEF High
  <2>5. /\ Low(c, v, d) = Shift(Shift(v, b, -1), d, -1)
        /\ Low(c, v, b) = Shift(Shift(v, b, -1), d, -1)
    BY <1>1, <1>2, <2>1 DEF Low
  <2> QED BY <1>4, <2>2, <2>3, <2>4, <2>5 DEF MagneticCurl, Difference
<1> QED BY <1>3, <1>4

\* The bounds an active cell satisfies.
LEMMA ActiveFacts ==
  ASSUME NEW b, NEW c \in Component, NEW v, Active(b, c, v)
  PROVE  \A a \in Axes : a # c[2] => /\ c[1] = "E" => v[a] < b.n[a]
                                     /\ c[1] = "H" => 1 <= v[a]
BY DEF Active

\* The driver along an axis is the tangential component of the other family.
LEMMA DriverFacts ==
  ASSUME NEW c \in Component, NEW d \in Axes, d # c[2]
  PROVE  /\ Remaining(c, d) \in Axes /\ Remaining(c, d) # d /\ Remaining(c, d) # c[2]
         /\ \A a \in Axes : a \in {c[2], d, Remaining(c, d)}
         /\ Driver(c, d) \in Component /\ Driver(c, d)[2] = Remaining(c, d)
         /\ Driver(c, d)[1] = Other(c[1])
         /\ c[1] = "E" => Driver(c, d)[1] = "H"
         /\ c[1] = "H" => Driver(c, d)[1] = "E"
<1>1. Axes = {1, 2, 3} /\ c[2] \in Axes /\ c[1] \in {"E", "H"}
  BY ComponentFacts DEF Axes
<1>2. /\ Remaining(c, d) \in Axes /\ Remaining(c, d) # d /\ Remaining(c, d) # c[2]
      /\ \A a \in Axes : a \in {c[2], d, Remaining(c, d)}
  BY <1>1 DEF Remaining
<1>3. Other(c[1]) \in {"E", "H"} /\ (c[1] = "E" => Other(c[1]) = "H") /\ (c[1] = "H" => Other(c[1]) = "E")
  BY <1>1 DEF Other
<1> QED BY <1>2, <1>3 DEF Driver, Component

\* The cells an electric difference reads, coordinate by coordinate.
LEMMA ElectricStencil ==
  ASSUME NEW n \in Sizes, NEW b, b.n = n, NEW c \in Component, c[1] = "E",
         NEW v \in Cells(n, c), Active(b, c, v), NEW d \in Axes, d # c[2]
  PROVE  /\ High(c, v, d) \in Cells(n, Driver(c, d))
         /\ Low(c, v, d) \in Cells(n, Driver(c, d))
         /\ High(c, v, d)[c[2]] = v[c[2]] + 1 /\ Low(c, v, d)[c[2]] = v[c[2]] + 1
         /\ High(c, v, d)[d] = v[d] + 1 /\ Low(c, v, d)[d] = v[d]
<1> DEFINE a == c[2]
           o == Remaining(c, d)
           g == Driver(c, d)
           h == High(c, v, d)
           l == Low(c, v, d)
<1>1. /\ a \in Axes /\ o \in Axes /\ a # d /\ o # a /\ o # d /\ g \in Component
      /\ g[2] = o
      /\ \A k \in Axes : k \in {a, d, o}
  BY ComponentFacts, DriverFacts
<1>4. h = Shift(l, d, 1) /\ l = Shift(v, a, 1)
  BY DEF High, Low
<1>9. Limit(n, g, o) = n[o] /\ \A k \in Axes : k # o => Limit(n, g, k) = n[k] + 1
  BY <1>1 DEF Limit
<1> HIDE DEF a, o, g, h, l
<1>2. /\ v \in Vectors /\ 0 <= v[a] /\ v[a] < n[a] /\ 0 <= v[d] /\ v[d] < n[d]
      /\ 0 <= v[o] /\ v[o] < n[o]
  <2>1. v \in Vectors /\ \A k \in Axes : 0 <= v[k] /\ v[k] < Limit(n, c, k)
    BY CellFacts
  <2>2. Limit(n, c, a) = n[a] /\ Limit(n, c, d) = n[d] + 1 /\ Limit(n, c, o) = n[o] + 1
    BY <1>1 DEF Limit, a
  <2>3. v[d] < n[d] /\ v[o] < n[o]
    BY <1>1, ActiveFacts DEF a
  <2> QED BY <1>1, <2>1, <2>2, <2>3
<1>3. /\ v[a] \in Int /\ v[d] \in Int /\ v[o] \in Int /\ n[a] \in Int /\ n[d] \in Int
      /\ n[o] \in Int
  BY <1>1, <1>2 DEF Vectors, Sizes
<1>5. l \in Vectors /\ l[a] = v[a] + 1 /\ l[d] = v[d] /\ l[o] = v[o]
  <2>1. 1 \in Int
    OBVIOUS
  <2>2. v \in Vectors /\ a \in Axes /\ l = Shift(v, a, 1)
    BY <1>1, <1>2, <1>4
  <2>3. l \in Vectors /\ l[a] = v[a] + 1 /\ \A k \in Axes : k # a => l[k] = v[k]
    BY <2>1, <2>2, ShiftAt, Zenon
  <2> QED BY <1>1, <2>3
<1>6. h \in Vectors /\ h[a] = v[a] + 1 /\ h[d] = v[d] + 1 /\ h[o] = v[o]
  <2>1. 1 \in Int
    OBVIOUS
  <2>2. h \in Vectors /\ h[d] = l[d] + 1 /\ \A k \in Axes : k # d => h[k] = l[k]
    BY <1>4, <1>5, <2>1, ShiftAt, Zenon
  <2> QED BY <1>1, <1>5, <2>2
<1>7. ASSUME NEW k \in Axes
      PROVE  0 <= l[k] /\ l[k] < Limit(n, g, k) /\ 0 <= h[k] /\ h[k] < Limit(n, g, k)
  <2>1. CASE k = o
    BY <1>2, <1>3, <1>5, <1>6, <1>9, <2>1
  <2>2. CASE k # o
    <3>1. Limit(n, g, k) = n[k] + 1 /\ (k = a \/ k = d)
      BY <1>1, <1>9, <2>2
    <3> QED BY <1>2, <1>3, <1>5, <1>6, <3>1
  <2> QED BY <2>1, <2>2
<1>8. h \in Cells(n, g) /\ l \in Cells(n, g)
  BY <1>1, <1>5, <1>6, <1>7, CellFacts
<1> QED BY <1>5, <1>6, <1>8 DEF a, g, h, l

\* The cells a magnetic difference reads, coordinate by coordinate.
LEMMA MagneticStencil ==
  ASSUME NEW n \in Sizes, NEW b, b.n = n, NEW c \in Component, c[1] = "H",
         NEW v \in Cells(n, c), Active(b, c, v), NEW d \in Axes, d # c[2]
  PROVE  /\ High(c, v, d) \in Cells(n, Driver(c, d))
         /\ Low(c, v, d) \in Cells(n, Driver(c, d))
         /\ High(c, v, d)[c[2]] = v[c[2]] /\ Low(c, v, d)[c[2]] = v[c[2]]
         /\ High(c, v, d)[d] = v[d] /\ Low(c, v, d)[d] = v[d] - 1
<1> DEFINE a == c[2]
           o == Remaining(c, d)
           g == Driver(c, d)
           h == High(c, v, d)
           l == Low(c, v, d)
<1>1. /\ a \in Axes /\ o \in Axes /\ a # d /\ o # a /\ o # d /\ g \in Component
      /\ g[2] = o
      /\ \A k \in Axes : k \in {a, d, o}
  BY ComponentFacts, DriverFacts
<1>4. l = Shift(h, d, -1) /\ h = Shift(v, o, -1)
  BY DEF High, Low
<1>9. Limit(n, g, o) = n[o] /\ \A k \in Axes : k # o => Limit(n, g, k) = n[k] + 1
  BY <1>1 DEF Limit
<1> HIDE DEF a, o, g, h, l
<1>2. /\ v \in Vectors /\ 0 <= v[a] /\ v[a] < n[a] /\ 1 <= v[d] /\ v[d] < n[d] + 1
      /\ 1 <= v[o] /\ v[o] < n[o] + 1
  <2>1. v \in Vectors /\ \A k \in Axes : 0 <= v[k] /\ v[k] < Limit(n, c, k)
    BY CellFacts
  <2>2. Limit(n, c, a) = n[a] /\ Limit(n, c, d) = n[d] + 1 /\ Limit(n, c, o) = n[o] + 1
    BY <1>1 DEF Limit, a
  <2>3. 1 <= v[d] /\ 1 <= v[o]
    BY <1>1, ActiveFacts DEF a
  <2> QED BY <1>1, <2>1, <2>2, <2>3
<1>3. /\ v[a] \in Int /\ v[d] \in Int /\ v[o] \in Int /\ n[a] \in Int /\ n[d] \in Int
      /\ n[o] \in Int
  BY <1>1, <1>2 DEF Vectors, Sizes
<1>5. h \in Vectors /\ h[a] = v[a] /\ h[d] = v[d] /\ h[o] = v[o] - 1
  <2>1. -1 \in Int
    OBVIOUS
  <2>2. h \in Vectors /\ h[o] = v[o] + -1 /\ \A k \in Axes : k # o => h[k] = v[k]
    <3>1. v \in Vectors /\ o \in Axes /\ h = Shift(v, o, -1)
      BY <1>1, <1>2, <1>4
    <3> QED BY <2>1, <3>1, ShiftAt, Zenon
  <2> QED BY <1>1, <1>3, <2>2
<1>6. l \in Vectors /\ l[a] = v[a] /\ l[d] = v[d] - 1 /\ l[o] = v[o] - 1
  <2>1. -1 \in Int
    OBVIOUS
  <2>2. l \in Vectors /\ l[d] = h[d] + -1 /\ \A k \in Axes : k # d => l[k] = h[k]
    BY <1>4, <1>5, <2>1, ShiftAt, Zenon
  <2> QED BY <1>1, <1>3, <1>5, <2>2
<1>7. ASSUME NEW k \in Axes
      PROVE  0 <= l[k] /\ l[k] < Limit(n, g, k) /\ 0 <= h[k] /\ h[k] < Limit(n, g, k)
  <2>1. CASE k = o
    BY <1>2, <1>3, <1>5, <1>6, <1>9, <2>1
  <2>2. CASE k # o
    <3>1. Limit(n, g, k) = n[k] + 1 /\ (k = a \/ k = d)
      BY <1>1, <1>9, <2>2
    <3> QED BY <1>2, <1>3, <1>5, <1>6, <3>1
  <2> QED BY <2>1, <2>2
<1>8. h \in Cells(n, g) /\ l \in Cells(n, g)
  BY <1>1, <1>5, <1>6, <1>7, CellFacts
<1> QED BY <1>5, <1>6, <1>8 DEF a, g, h, l

\* A curl of whole numbers is a whole number.
LEMMA CurlType ==
  ASSUME NEW b, b.n \in Sizes, NEW F, IsFields(F, b.n), NEW c \in Component,
         NEW v \in Cells(b.n, c), Active(b, c, v)
  PROVE  Curl(F, c, v) \in Int
<1>1. ASSUME NEW d \in Axes, d # c[2]
      PROVE  Difference(F, c, v, d) \in Int
  <2>1. /\ High(c, v, d) \in Cells(b.n, Driver(c, d))
        /\ Low(c, v, d) \in Cells(b.n, Driver(c, d))
    BY <1>1, ElectricStencil, MagneticStencil, ComponentFacts
  <2>2. F[Driver(c, d)] \in [Cells(b.n, Driver(c, d)) -> 0..(P - 1)]
    BY <1>1, DriverFacts DEF IsFields
  <2>3. F[Driver(c, d)][High(c, v, d)] \in Int /\ F[Driver(c, d)][Low(c, v, d)] \in Int
    <3> HIDE DEF Difference
    <3> QED BY <2>1, <2>2, PType
  <2> QED BY <2>3 DEF Difference
<1>2. /\ AxisB(c[2]) \in Axes /\ AxisC(c[2]) \in Axes /\ AxisB(c[2]) # c[2]
      /\ AxisC(c[2]) # c[2]
  BY ComponentFacts, AxisFacts
<1>3. Rate[AxisB(c[2])] \in Int /\ Rate[AxisC(c[2])] \in Int
  BY <1>2, GridAssumption
<1>4. /\ Difference(F, c, v, AxisB(c[2])) \in Int
      /\ Difference(F, c, v, AxisC(c[2])) \in Int
  BY <1>1, <1>2
<1>5. v \in Vectors
  BY CellFacts
<1> QED BY <1>3, <1>4, <1>5, CurlIsDifferences

\* The curl of a component reads the other family only.
LEMMA CurlReads ==
  ASSUME NEW F, NEW G, NEW c \in Component, NEW v \in Vectors,
         \A g \in Component : g[1] = Other(c[1]) => F[g] = G[g]
  PROVE  Curl(F, c, v) = Curl(G, c, v)
<1>1. ASSUME NEW d \in Axes, d # c[2]
      PROVE  Difference(F, c, v, d) = Difference(G, c, v, d)
  BY <1>1, DriverFacts DEF Difference
<1>2. /\ AxisB(c[2]) \in Axes /\ AxisC(c[2]) \in Axes /\ AxisB(c[2]) # c[2]
      /\ AxisC(c[2]) # c[2]
  BY ComponentFacts, AxisFacts
<1>3. /\ Difference(F, c, v, AxisB(c[2])) = Difference(G, c, v, AxisB(c[2]))
      /\ Difference(F, c, v, AxisC(c[2])) = Difference(G, c, v, AxisC(c[2]))
  BY <1>1, <1>2
<1> QED BY <1>3, CurlIsDifferences

-----------------------------------------------------------------------------
\* The stencil of a slab and of the grid.

\* The plane of a half step's components next to the ghosts they read.
Edge(r, e) == IF e = "E" THEN 0 ELSE Slab(r).n[split.axis]

\* A shift commutes with the passage to global indices.
LEMMA GlobalShift ==
  ASSUME split \in Partitions, NEW r \in {0, 1}, NEW v \in Vectors, NEW a \in Axes,
         NEW i \in Int
  PROVE  Global(Slab(r), Shift(v, a, i)) = Shift(Global(Slab(r), v), a, i)
<1>0. Slab(r).off \in Vectors
  BY SlabFacts
<1>1. Shift(v, a, i) \in Vectors /\ Global(Slab(r), v) \in Vectors
  BY <1>0, ShiftAt, GlobalFacts
<1>2. /\ Global(Slab(r), Shift(v, a, i)) \in Vectors
      /\ Shift(Global(Slab(r), v), a, i) \in Vectors
  BY <1>0, <1>1, ShiftAt, GlobalFacts
<1>3. ASSUME NEW k \in Axes
      PROVE  Global(Slab(r), Shift(v, a, i))[k] = Shift(Global(Slab(r), v), a, i)[k]
  <2>1. Global(Slab(r), Shift(v, a, i))[k] = Shift(v, a, i)[k] + Slab(r).off[k]
    BY <1>0, <1>1, GlobalFacts
  <2>2. Global(Slab(r), v)[k] = v[k] + Slab(r).off[k]
    BY <1>0, GlobalFacts
  <2>3. v[k] \in Int /\ Slab(r).off[k] \in Int
    BY <1>0 DEF Vectors
  <2>4. CASE k = a
    <3>1. /\ Shift(v, a, i)[k] = v[k] + i
          /\ Shift(Global(Slab(r), v), a, i)[k] = Global(Slab(r), v)[k] + i
      BY <1>1, <2>4, ShiftAt
    <3> QED BY <2>1, <2>2, <2>3, <3>1
  <2>5. CASE k # a
    <3>1. /\ Shift(v, a, i)[k] = v[k]
          /\ Shift(Global(Slab(r), v), a, i)[k] = Global(Slab(r), v)[k]
      BY <1>1, <2>5, ShiftAt
    <3> QED BY <2>1, <2>2, <3>1
  <2> QED BY <2>4, <2>5
<1> QED BY <1>2, <1>3, VectorEqual

\* So the stencil of a slab's cell is the stencil of the grid's.
LEMMA StencilGlobal ==
  ASSUME split \in Partitions, NEW r \in {0, 1}, NEW c \in Component, NEW v \in Vectors,
         NEW d \in Axes, d # c[2]
  PROVE  /\ Global(Slab(r), High(c, v, d)) = High(c, Global(Slab(r), v), d)
         /\ Global(Slab(r), Low(c, v, d)) = Low(c, Global(Slab(r), v), d)
<1>1. c[2] \in Axes /\ Remaining(c, d) \in Axes /\ 1 \in Int /\ -1 \in Int
  BY ComponentFacts, DriverFacts
<1>2. /\ Shift(v, c[2], 1) \in Vectors /\ Shift(v, Remaining(c, d), -1) \in Vectors
  BY <1>1, ShiftAt
<1>3. /\ Global(Slab(r), Shift(v, c[2], 1)) = Shift(Global(Slab(r), v), c[2], 1)
      /\ Global(Slab(r), Shift(v, Remaining(c, d), -1)) = Shift(Global(Slab(r), v), Remaining(c, d), -1)
  BY <1>1, GlobalShift
<1>4. /\ Global(Slab(r), Shift(Shift(v, c[2], 1), d, 1))
           = Shift(Shift(Global(Slab(r), v), c[2], 1), d, 1)
      /\ Global(Slab(r), Shift(Shift(v, Remaining(c, d), -1), d, -1))
           = Shift(Shift(Global(Slab(r), v), Remaining(c, d), -1), d, -1)
  BY <1>1, <1>2, <1>3, GlobalShift
<1> QED BY <1>3, <1>4 DEF High, Low

\* The stencil of an active cell stays inside the slab.
LEMMA StencilInside ==
  ASSUME NEW b, b.n \in Sizes, NEW c \in Component,
         NEW v \in Cells(b.n, c), Active(b, c, v), NEW d \in Axes, d # c[2]
  PROVE  /\ High(c, v, d) \in Cells(b.n, Driver(c, d))
         /\ Low(c, v, d) \in Cells(b.n, Driver(c, d))
BY ElectricStencil, MagneticStencil, ComponentFacts

\* Only a cell on the edge plane reads the ghost plane, and only in the
\* difference along the split axis.
LEMMA StencilGhost ==
  ASSUME split \in Partitions, NEW r \in {0, 1}, NEW c \in Component,
         NEW v \in Cells(Slab(r).n, c), Active(Slab(r), c, v), NEW d \in Axes, d # c[2]
  PROVE  /\ (Ghost(r, Driver(c, d), Low(c, v, d))
               <=> c[1] = "E" /\ d = split.axis /\ v[d] = 0)
         /\ (Ghost(r, Driver(c, d), High(c, v, d))
               <=> c[1] = "H" /\ d = split.axis /\ v[d] = Slab(r).n[d])
<1> DEFINE a == c[2]
           o == Remaining(c, d)
           x == split.axis
           n == Slab(r).n
<1>1. /\ a \in Axes /\ o \in Axes /\ x \in Axes /\ x \in {a, d, o} /\ a # d /\ a # o
      /\ d # o
      /\ n \in Sizes /\ Driver(c, d)[2] = o
  BY ComponentFacts, DriverFacts, SlabFacts
<1>2. /\ v \in Vectors /\ 0 <= v[a] /\ v[a] < n[a] /\ 0 <= v[d] /\ v[d] <= n[d]
  <2>1. v \in Vectors /\ \A k \in Axes : 0 <= v[k] /\ v[k] < Limit(n, c, k)
    BY <1>1, CellFacts
  <2>2. Limit(n, c, a) = n[a] /\ Limit(n, c, d) = n[d] + 1
    BY DEF Limit
  <2>3. v[d] \in Int /\ n[d] \in Int
    BY <1>1, <2>1 DEF Vectors, Sizes
  <2> QED BY <1>1, <2>1, <2>2, <2>3
<1>3. v[a] \in Int /\ v[d] \in Int /\ n[a] \in Int /\ n[d] \in Int
  BY <1>1, <1>2 DEF Vectors, Sizes
<1>4. CASE c[1] = "E"
  <2>1. /\ High(c, v, d)[a] = v[a] + 1 /\ Low(c, v, d)[a] = v[a] + 1
        /\ High(c, v, d)[d] = v[d] + 1 /\ Low(c, v, d)[d] = v[d]
    BY <1>1, <1>4, ElectricStencil
  <2>2. ReceiveIndex(r, Driver(c, d)[1]) = 0
    BY <1>4, DriverFacts DEF ReceiveIndex
  <2> HIDE DEF a, o, x, n
  <2> QED BY <1>1, <1>2, <1>3, <1>4, <2>1, <2>2 DEF Ghost, x
<1>5. CASE c[1] = "H"
  <2>1. /\ High(c, v, d)[a] = v[a] /\ Low(c, v, d)[a] = v[a]
        /\ High(c, v, d)[d] = v[d] /\ Low(c, v, d)[d] = v[d] - 1
    BY <1>1, <1>5, MagneticStencil
  <2>2. ReceiveIndex(r, Driver(c, d)[1]) = n[x]
    BY <1>5, DriverFacts DEF ReceiveIndex
  <2> HIDE DEF a, o, n
  <2> QED BY <1>1, <1>2, <1>3, <1>5, <2>1, <2>2 DEF Ghost, n
<1> QED BY <1>4, <1>5, ComponentFacts

\* Two arrays that agree where a slab has interior cells.
Agree(F, G, r, e) ==
  \A g \in Component : g[1] = e =>
    \A u \in Cells(Slab(r).n, g) : ~Ghost(r, g, u) => F[g][u] = G[g][Global(Slab(r), u)]

\* Away from the ghosts a difference is the one of the single-process solver;
\* next to them it lacks what the halo changes.
LEMMA DifferenceFacts ==
  ASSUME split \in Partitions, NEW r \in {0, 1}, NEW c \in Component,
         NEW v \in Cells(Slab(r).n, c), Active(Slab(r), c, v), NEW d \in Axes, d # c[2],
         NEW F, IsFields(F, Slab(r).n), NEW G, IsFields(G, split.n),
         Agree(F, G, r, Other(c[1]))
  PROVE  /\ d # split.axis \/ v[d] # Edge(r, c[1])
              => Difference(F, c, v, d) = Difference(G, c, Global(Slab(r), v), d)
         /\ d = split.axis /\ v[d] = Edge(r, c[1])
              => LET g == Driver(c, d)
                     w == IF c[1] = "E" THEN Low(c, v, d) ELSE High(c, v, d)
                 IN  Difference(G, c, Global(Slab(r), v), d)
                       = Difference(F, c, v, d)
                           + (IF c[1] = "E" THEN -1 ELSE 1)
                               * (G[g][Global(Slab(r), w)] - F[g][w])
<1> DEFINE g == Driver(c, d)
           h == High(c, v, d)
           l == Low(c, v, d)
           gh == Global(Slab(r), h)
           gl == Global(Slab(r), l)
<1>1. /\ Slab(r).n \in Sizes /\ v \in Vectors /\ g \in Component /\ g[1] = Other(c[1])
      /\ c[1] \in {"E", "H"}
  BY SlabFacts, CellFacts, DriverFacts, ComponentFacts
<1>2. h \in Cells(Slab(r).n, g) /\ l \in Cells(Slab(r).n, g)
  BY <1>1, StencilInside
<1>3. gh \in Cells(split.n, g) /\ gl \in Cells(split.n, g)
  BY <1>1, <1>2, GlobalInside
<1>4. F[g][h] \in Int /\ F[g][l] \in Int /\ G[g][gh] \in Int /\ G[g][gl] \in Int
  <2>1. /\ F[g] \in [Cells(Slab(r).n, g) -> 0..(P - 1)]
        /\ G[g] \in [Cells(split.n, g) -> 0..(P - 1)]
    BY <1>1 DEF IsFields
  <2> HIDE DEF g, h, l, gh, gl
  <2> QED BY <1>2, <1>3, <2>1, PType
<1>5. High(c, Global(Slab(r), v), d) = gh /\ Low(c, Global(Slab(r), v), d) = gl
  BY <1>1, StencilGlobal
<1>6. /\ ~Ghost(r, g, h) => F[g][h] = G[g][gh]
      /\ ~Ghost(r, g, l) => F[g][l] = G[g][gl]
  BY <1>1, <1>2 DEF Agree
<1>7. /\ Ghost(r, g, l) <=> c[1] = "E" /\ d = split.axis /\ v[d] = 0
      /\ Ghost(r, g, h) <=> c[1] = "H" /\ d = split.axis /\ v[d] = Slab(r).n[d]
  BY StencilGhost
<1>8. /\ Difference(F, c, v, d) = F[g][h] - F[g][l]
      /\ Difference(G, c, Global(Slab(r), v), d) = G[g][gh] - G[g][gl]
  BY <1>5 DEF Difference
<1>9. ASSUME d # split.axis \/ v[d] # Edge(r, c[1])
      PROVE  Difference(F, c, v, d) = Difference(G, c, Global(Slab(r), v), d)
  <2>1. ~Ghost(r, g, l) /\ ~Ghost(r, g, h)
    BY <1>7, <1>9 DEF Edge
  <2> HIDE DEF g, h, l, gh, gl
  <2> QED BY <1>6, <1>8, <2>1
<1>10. ASSUME d = split.axis, v[d] = Edge(r, c[1]), c[1] = "E"
       PROVE  Difference(G, c, Global(Slab(r), v), d)
                = Difference(F, c, v, d) + -1 * (G[g][gl] - F[g][l])
  <2>1. ~Ghost(r, g, h)
    BY <1>7, <1>10
  <2> HIDE DEF g, h, l, gh, gl
  <2> QED BY <1>4, <1>6, <1>8, <2>1
<1>11. ASSUME d = split.axis, v[d] = Edge(r, c[1]), c[1] = "H"
       PROVE  Difference(G, c, Global(Slab(r), v), d)
                = Difference(F, c, v, d) + 1 * (G[g][gh] - F[g][h])
  <2>1. ~Ghost(r, g, l)
    BY <1>7, <1>11
  <2> HIDE DEF g, h, l, gh, gl
  <2> QED BY <1>4, <1>6, <1>8, <2>1
<1>12. CASE c[1] = "E"
  <2>1. ASSUME d = split.axis, v[d] = Edge(r, c[1])
        PROVE  Difference(G, c, Global(Slab(r), v), d)
                 = Difference(F, c, v, d) + (IF c[1] = "E" THEN -1 ELSE 1) * (G[g][gl] - F[g][l])
    <3> HIDE DEF g, l, gl
    <3>1. Difference(G, c, Global(Slab(r), v), d)
                = Difference(F, c, v, d) + -1 * (G[g][gl] - F[g][l])
      BY <1>10, <1>12, <2>1, Zenon
    <3> DEFINE s == IF c[1] = "E" THEN -1 ELSE 1
    <3>2. s = -1
      BY <1>12
    <3> HIDE DEF s
    <3>3. Difference(G, c, Global(Slab(r), v), d)
                = Difference(F, c, v, d) + s * (G[g][gl] - F[g][l])
      BY <1>4, <3>1, <3>2
    <3> QED BY <3>3 DEF s
  <2>2. (IF c[1] = "E" THEN Low(c, v, d) ELSE High(c, v, d)) = l
    BY <1>12
  <2> HIDE DEF l
  <2> QED BY <1>9, <2>1, <2>2 DEF g, gl
<1>13. CASE c[1] = "H"
  <2> HIDE DEF g, h
  <2>1. "H" # "E" /\ Driver(c, d) = g /\ High(c, v, d) = h
    BY DEF g, h
  <2> QED BY <1>9, <1>11, <1>13, <2>1 DEF gh
<1> QED BY <1>1, <1>12, <1>13

\* Away from the edge the curl of a slab is the one of the single-process solver.
LEMMA CurlSame ==
  ASSUME split \in Partitions, NEW r \in {0, 1}, NEW c \in Component,
         NEW v \in Cells(Slab(r).n, c), Active(Slab(r), c, v),
         NEW F, IsFields(F, Slab(r).n), NEW G, IsFields(G, split.n),
         Agree(F, G, r, Other(c[1])),
         c[2] = split.axis \/ v[split.axis] # Edge(r, c[1])
  PROVE  Curl(F, c, v) = Curl(G, c, Global(Slab(r), v))
<1>1. /\ AxisB(c[2]) \in Axes /\ AxisC(c[2]) \in Axes /\ AxisB(c[2]) # c[2]
      /\ AxisC(c[2]) # c[2]
  BY ComponentFacts, AxisFacts
<1>2. ASSUME NEW d \in Axes, d # c[2]
      PROVE  Difference(F, c, v, d) = Difference(G, c, Global(Slab(r), v), d)
  <2>1. d # split.axis \/ v[d] # Edge(r, c[1])
    BY <1>2
  <2> QED BY <1>2, <2>1, DifferenceFacts
<1>3. /\ Difference(F, c, v, AxisB(c[2])) = Difference(G, c, Global(Slab(r), v), AxisB(c[2]))
      /\ Difference(F, c, v, AxisC(c[2])) = Difference(G, c, Global(Slab(r), v), AxisC(c[2]))
  BY <1>1, <1>2
<1>4. v \in Vectors /\ Global(Slab(r), v) \in Vectors
  BY SlabFacts, CellFacts, GlobalFacts
<1> QED BY <1>3, <1>4, CurlIsDifferences

\* The sign with which BoundaryCorrection adds, and the ghost cell it looks at.
Sign(a) == IF split.axis = AxisC(a) THEN 1 ELSE -1
GhostCell(c, v) == IF c[1] = "E" THEN Shift(v, c[2], 1) ELSE Shift(v, Third(c[2]), -1)
GhostOf(c) == <<Other(c[1]), Third(c[2])>>

\* At the edge it lacks what the halo changes of one ghost cell, with the sign
\* and the component that finish() takes.
LEMMA CurlChange ==
  ASSUME split \in Partitions, NEW r \in {0, 1}, NEW c \in Component, c[2] # split.axis,
         NEW v \in Cells(Slab(r).n, c), Active(Slab(r), c, v),
         v[split.axis] = Edge(r, c[1]),
         NEW F, IsFields(F, Slab(r).n), NEW G, IsFields(G, split.n),
         Agree(F, G, r, Other(c[1]))
  PROVE  /\ GhostOf(c) \in Component /\ GhostOf(c)[2] # split.axis
         /\ GhostOf(c)[1] = Other(c[1])
         /\ GhostCell(c, v) \in Cells(Slab(r).n, GhostOf(c))
         /\ Ghost(r, GhostOf(c), GhostCell(c, v))
         /\ Curl(G, c, Global(Slab(r), v))
              = Curl(F, c, v)
                  + Sign(c[2]) * Rate[split.axis]
                      * (G[GhostOf(c)][Global(Slab(r), GhostCell(c, v))] - F[GhostOf(c)][GhostCell(c, v)])
<1> DEFINE x == split.axis
           b == AxisB(c[2])
           d == AxisC(c[2])
           g == GhostOf(c)
           w == GhostCell(c, v)
           gv == Global(Slab(r), v)
           gw == Global(Slab(r), w)
           change == G[g][gw] - F[g][w]
<1>1. /\ c[2] \in Axes /\ b \in Axes /\ d \in Axes /\ b # c[2] /\ d # c[2] /\ b # d
      /\ x \in {b, d}
      /\ x \in Axes /\ c[1] \in {"E", "H"} /\ Slab(r).n \in Sizes
  BY ComponentFacts, AxisFacts, SlabFacts
<1>2. Third(c[2]) = Remaining(c, x)
  BY DEF Third, Remaining
<1>3. /\ g = Driver(c, x) /\ g \in Component /\ g[1] = Other(c[1]) /\ g[2] # x
      /\ w = IF c[1] = "E" THEN Low(c, v, x) ELSE High(c, v, x)
  BY <1>1, <1>2, DriverFacts DEF Driver, Low, High, GhostOf, GhostCell
<1>4. w \in Cells(Slab(r).n, g)
  BY <1>1, <1>3, StencilInside
<1>5. Ghost(r, g, w)
  BY <1>1, <1>3, StencilGhost DEF Edge
<1>6. v \in Vectors /\ gv \in Vectors
  BY SlabFacts, CellFacts, GlobalFacts
<1>7. gw \in Cells(split.n, g)
  BY <1>3, <1>4, GlobalInside
<1>8. F[g][w] \in Int /\ G[g][gw] \in Int
  <2>1. /\ F[g] \in [Cells(Slab(r).n, g) -> 0..(P - 1)]
        /\ G[g] \in [Cells(split.n, g) -> 0..(P - 1)]
    BY <1>3 DEF IsFields
  <2> HIDE DEF g, w, gw
  <2> QED BY <1>4, <1>7, <2>1, PType
<1>9. \A k \in {b, d} : Rate[k] \in Int
  BY <1>1, GridAssumption
<1>10. ASSUME NEW k \in {b, d}
       PROVE  Difference(F, c, v, k) \in Int /\ Difference(G, c, gv, k) \in Int
  <2>1. k \in Axes /\ k # c[2]
    BY <1>1
  <2>2. /\ High(c, v, k) \in Cells(Slab(r).n, Driver(c, k))
        /\ Low(c, v, k) \in Cells(Slab(r).n, Driver(c, k))
        /\ Driver(c, k) \in Component
    BY <1>1, <2>1, StencilInside, DriverFacts
  <2>3. /\ High(c, gv, k) \in Cells(split.n, Driver(c, k))
        /\ Low(c, gv, k) \in Cells(split.n, Driver(c, k))
    BY <1>6, <2>1, <2>2, StencilGlobal, GlobalInside
  <2>4. F[Driver(c, k)] \in [Cells(Slab(r).n, Driver(c, k)) -> 0..(P - 1)]
        /\ G[Driver(c, k)] \in [Cells(split.n, Driver(c, k)) -> 0..(P - 1)]
    BY <2>2 DEF IsFields
  <2>5. /\ F[Driver(c, k)][High(c, v, k)] \in Int
        /\ F[Driver(c, k)][Low(c, v, k)] \in Int
        /\ G[Driver(c, k)][High(c, gv, k)] \in Int
        /\ G[Driver(c, k)][Low(c, gv, k)] \in Int
    <3> HIDE DEF gv
    <3> QED BY <2>2, <2>3, <2>4, PType
  <2> QED BY <2>5 DEF Difference
<1>11. ASSUME NEW k \in {b, d}, k # x
       PROVE  Difference(G, c, gv, k) = Difference(F, c, v, k)
  <2>1. k \in Axes /\ k # c[2] /\ k # split.axis
    BY <1>1, <1>11
  <2> QED BY <2>1, DifferenceFacts
<1>12. Difference(G, c, gv, x) = Difference(F, c, v, x) + (IF c[1] = "E" THEN -1 ELSE 1) * change
  <2>1. x \in Axes /\ x # c[2] /\ x = split.axis /\ v[x] = Edge(r, c[1])
    BY <1>1
  <2>2. Driver(c, x) = g /\ (IF c[1] = "E" THEN Low(c, v, x) ELSE High(c, v, x)) = w
    BY <1>3
  <2> HIDE DEF x, g, w
  <2> QED BY <2>1, <2>2, DifferenceFacts
<1>13. Curl(F, c, v) = IF c[1] = "E"
           THEN Rate[b] * Difference(F, c, v, b) - Rate[d] * Difference(F, c, v, d)
           ELSE Rate[d] * Difference(F, c, v, d) - Rate[b] * Difference(F, c, v, b)
  BY <1>6, CurlIsDifferences
<1>14. Curl(G, c, gv) = IF c[1] = "E"
           THEN Rate[b] * Difference(G, c, gv, b) - Rate[d] * Difference(G, c, gv, d)
           ELSE Rate[d] * Difference(G, c, gv, d) - Rate[b] * Difference(G, c, gv, b)
  BY <1>6, CurlIsDifferences
<1>15. change \in Int
  BY <1>8
<1>16. Sign(c[2]) = IF x = d THEN 1 ELSE -1
  BY DEF Sign
<1> HIDE DEF x, b, d, g, w, gv, gw, change
<1>17. Curl(G, c, gv) = Curl(F, c, v) + Sign(c[2]) * Rate[x] * change
  <2>1. CASE x = b
    <3>1. Sign(c[2]) = -1 /\ Difference(G, c, gv, d) = Difference(F, c, v, d)
      BY <1>1, <1>11, <1>16, <2>1
    <3> QED BY <1>1, <1>9, <1>10, <1>12, <1>13, <1>14, <1>15, <2>1, <3>1
  <2>2. CASE x = d
    <3>1. Sign(c[2]) = 1 /\ Difference(G, c, gv, b) = Difference(F, c, v, b)
      BY <1>1, <1>11, <1>16, <2>2
    <3> QED BY <1>1, <1>9, <1>10, <1>12, <1>13, <1>14, <1>15, <2>2, <3>1
  <2> QED BY <1>1, <2>1, <2>2
<1> QED BY <1>3, <1>4, <1>5, <1>17 DEF x, g, w, gv, gw, change

-----------------------------------------------------------------------------
\* Induction, and the point sources of a view.

\* A nonempty set of naturals has a least element.
LEMMA NatSetMin ==
  ASSUME NEW T, T \subseteq Nat, T # {}
  PROVE  \E x \in T : \A y \in T : x <= y
<1> DEFINE U == {0..x : x \in T}
<1>0. \A x \in Nat : Finite!IsFiniteSet(0..x)
  BY Finite!FS_Interval
<1>1. U \subseteq Finite!FiniteSubsetsOf(Nat) /\ U # {}
  <2>1. U # {}
    OBVIOUS
  <2>2. ASSUME NEW x \in T PROVE 0..x \in Finite!FiniteSubsetsOf(Nat)
    <3>1. 0..x \subseteq Nat
      OBVIOUS
    <3> QED BY <3>1, <1>0 DEF Finite!FiniteSubsetsOf
  <2> QED BY <2>1, <2>2
<1>2. Finite!IsWellFoundedOn(Finite!StrictSubsetOrdering(Nat), Finite!FiniteSubsetsOf(Nat))
  BY Finite!FS_StrictSubsetOrderingWellFounded
<1>3. \E a \in U : \A b \in U : ~(<<b, a>> \in Finite!StrictSubsetOrdering(Nat))
  <2> HIDE DEF U
  <2> QED BY <1>1, <1>2, Finite!WFMin
<1>4. PICK x \in T : \A b \in U : ~(<<b, 0..x>> \in Finite!StrictSubsetOrdering(Nat))
  BY <1>3
<1>5. ASSUME NEW y \in T, y < x PROVE FALSE
  <2>1. ~(<<0..y, 0..x>> \in Finite!StrictSubsetOrdering(Nat))
    BY <1>4
  <2>2. /\ 0..y \in SUBSET Nat /\ 0..x \in SUBSET Nat /\ 0..y \subseteq 0..x
        /\ x \notin 0..y /\ x \in 0..x
    BY <1>5
  <2> QED BY <2>1, <2>2 DEF Finite!StrictSubsetOrdering
<1> QED BY <1>5

\* Induction over the naturals, for a set.
LEMMA NatSetInduction ==
  ASSUME NEW T, 0 \in T, \A n \in Nat : n \in T => n + 1 \in T
  PROVE  Nat \subseteq T
<1> SUFFICES ASSUME Nat \ T # {} PROVE FALSE
  OBVIOUS
<1>1. PICK x \in Nat \ T : \A y \in Nat \ T : x <= y
  BY NatSetMin
<1>2. x # 0 /\ x - 1 \in Nat /\ x - 1 \in T
  BY <1>1
<1> QED BY <1>1, <1>2

\* Of the sources of a cell the last one counts.
LEMMA PointSourcesFacts ==
  ASSUME NEW b, NEW sources \in Seq(PointSource)
  PROVE  /\ \A t : t \in DOMAIN PointSources(b, sources) <=>
              \E i \in DOMAIN sources : Kept(b, sources[i]) /\ t = <<sources[i].c, Target(b, sources[i])>>
         /\ \A t \in DOMAIN PointSources(b, sources) :
              \E i \in DOMAIN sources :
                /\ Kept(b, sources[i]) /\ t = <<sources[i].c, Target(b, sources[i])>>
                /\ PointSources(b, sources)[t] = sources[i]
                /\ \A j \in DOMAIN sources :
                     Kept(b, sources[j]) /\ t = <<sources[j].c, Target(b, sources[j])>> => j <= i
<1> DEFINE kept == {i \in DOMAIN sources : Kept(b, sources[i])}
           at(i) == <<sources[i].c, Target(b, sources[i])>>
           best(t, i) == at(i) = t /\ \A j \in kept : at(j) = t => j <= i
<1>1. PointSources(b, sources) = [t \in {at(i) : i \in kept} |-> sources[CHOOSE i \in kept : best(t, i)]]
  BY DEF PointSources
<1>2. /\ kept \subseteq DOMAIN sources /\ DOMAIN sources = 1..Len(sources)
      /\ Len(sources) \in Nat
  OBVIOUS
<1>3. ASSUME NEW t \in {at(i) : i \in kept}
      PROVE  \E i \in kept : best(t, i)
  <2> DEFINE T == {Len(sources) - i : i \in {k \in kept : at(k) = t}}
  <2>1. T \subseteq Nat /\ T # {}
    BY <1>2, <1>3
  <2>2. PICK m \in T : \A y \in T : m <= y
    <3> HIDE DEF T
    <3> QED BY <2>1, NatSetMin
  <2>3. PICK i \in kept : at(i) = t /\ m = Len(sources) - i
    OBVIOUS
  <2>4. ASSUME NEW j \in kept, at(j) = t
        PROVE  j <= i
    <3>1. Len(sources) - j \in T
      BY <2>4
    <3>2. m <= Len(sources) - j
      BY <2>2, <3>1
    <3>3. i \in Int /\ j \in Int
      BY <1>2
    <3> QED BY <1>2, <2>3, <3>2, <3>3
  <2> QED BY <2>3, <2>4
<1>4. ASSUME NEW t \in {at(i) : i \in kept}
      PROVE  \E i \in kept : best(t, i) /\ PointSources(b, sources)[t] = sources[i]
  <2>1. PICK i \in kept : best(t, i)
    BY <1>3
  <2>2. (CHOOSE k \in kept : best(t, k)) \in kept /\ best(t, CHOOSE k \in kept : best(t, k))
    <3> HIDE DEF kept, best
    <3> QED BY <2>1
  <2>3. PointSources(b, sources)[t] = sources[CHOOSE k \in kept : best(t, k)]
    <3> HIDE DEF kept, at, best
    <3> QED BY <1>1
  <2> HIDE DEF best
  <2> QED BY <2>2, <2>3
<1>5. DOMAIN PointSources(b, sources) = {at(i) : i \in kept}
  BY <1>1
<1>6. ASSUME NEW t \in DOMAIN PointSources(b, sources)
      PROVE  \E i \in DOMAIN sources :
                /\ Kept(b, sources[i]) /\ t = <<sources[i].c, Target(b, sources[i])>>
                /\ PointSources(b, sources)[t] = sources[i]
                /\ \A j \in DOMAIN sources :
                     Kept(b, sources[j]) /\ t = <<sources[j].c, Target(b, sources[j])>> => j <= i
  BY <1>4, <1>5, <1>6
<1> QED BY <1>5, <1>6

\* The fields of a point source of the partition.
LEMMA SourceFacts ==
  ASSUME split \in Partitions, NEW i \in DOMAIN split.sources
  PROVE  /\ split.sources[i].c \in Component /\ split.sources[i].v \in Vectors
         /\ \A a \in Axes : split.sources[i].v[a] \in Nat
         /\ split.sources[i].amp \in Int /\ split.sources[i].current \in BOOLEAN
<1>1. split.sources \in Seq(PointSource)
  BY PartitionAssumption
<1>2. split.sources[i] \in PointSource
  BY <1>1
<1>3. \A v \in Nat \X Nat \X Nat : v \in Vectors /\ \A a \in Axes : v[a] \in Nat
  BY DEF Vectors, Axes
<1> QED BY <1>2, <1>3 DEF PointSource

\* A cell is active on its rank exactly when it is in the whole grid.
LEMMA ActiveMatch ==
  ASSUME split \in Partitions, NEW r \in {0, 1}, NEW c \in Component,
         NEW v \in Cells(Slab(r).n, c), ~Shared(r, c, v)
  PROVE  Active(Slab(r), c, v) <=> Active(Whole, c, Global(Slab(r), v))
<1> DEFINE g == Global(Slab(r), v)
<1>1. v \in Vectors /\ g \in Vectors /\ \A a \in Axes : g[a] = v[a] + Slab(r).off[a]
  BY GlobalInside, SlabFacts, GlobalFacts
<1>2. \A a \in Axes : 0 <= v[a] /\ v[a] < Limit(Slab(r).n, c, a)
  BY SlabFacts, CellFacts
<1>3. c[1] \in {"E", "H"} /\ c[2] \in Axes
  BY ComponentFacts
<1> HIDE DEF g
<1>4. ASSUME NEW a \in Axes, a # c[2]
      PROVE  /\ c[1] = "E" => (v[a] < Slab(r).n[a] <=> g[a] < Whole.n[a])
             /\ c[1] = "H" => (v[a] >= 1 <=> g[a] >= 1)
  <2>1. /\ v[a] \in Int /\ g[a] = v[a] + Slab(r).off[a] /\ 0 <= v[a]
        /\ v[a] < Slab(r).n[a] + 1
    BY <1>1, <1>2, <1>4 DEF Vectors, Limit
  <2>2. Whole.n[a] = split.n[a] /\ split.n[a] \in Int /\ Slab(r).n[a] \in Int
    BY SlabFacts, WholeGridFacts DEF Sizes
  <2>3. CASE a # split.axis
    <3>1. Slab(r).off[a] = 0 /\ Slab(r).n[a] = split.n[a]
      BY <2>3, SlabFacts
    <3> QED BY <2>1, <2>2, <3>1
  <2>4. CASE a = split.axis
    <3>1. /\ split.cut \in Int /\ 2 <= split.cut /\ split.cut <= split.n[a] - 2
          /\ r = 0 => Slab(r).off[a] = 0 /\ Slab(r).n[a] = split.cut
          /\ r = 1 => Slab(r).off[a] = split.cut /\ Slab(r).n[a] = split.n[a] - split.cut
      BY <2>4, SlabFacts
    <3>2. /\ c[1] = "E" /\ r = 0 => v[a] # Slab(r).n[a]
          /\ c[1] = "H" /\ r = 1 => v[a] # 0
      BY <1>4, <2>4 DEF Shared, Ghost, ReceiveIndex
    <3> QED BY <2>1, <2>2, <3>1, <3>2
  <2> QED BY <2>3, <2>4
<1>5. CASE c[1] = "E"
  BY <1>4, <1>5 DEF Active, g
<1>6. CASE c[1] = "H"
  BY <1>4, <1>6 DEF Active, g
<1> QED BY <1>3, <1>5, <1>6

\* No active cell is on the plane the peer updates.
LEMMA ActiveSettled ==
  ASSUME split \in Partitions, NEW r \in {0, 1}, NEW c \in Component,
         NEW v \in Cells(Slab(r).n, c), Active(Slab(r), c, v)
  PROVE  ~Shared(r, c, v)
<1>1. CASE c[2] = split.axis
  BY <1>1 DEF Shared, Ghost
<1>2. CASE c[2] # split.axis
  <2>1. /\ c[1] = "E" => v[split.axis] < Slab(r).n[split.axis]
        /\ c[1] = "H" => 1 <= v[split.axis]
    BY <1>2, SlabFacts, ActiveFacts
  <2>2. v[split.axis] \in Int /\ Slab(r).n[split.axis] \in Int /\ c[1] \in {"E", "H"}
    BY SlabFacts, CellFacts, ComponentFacts DEF Vectors, Sizes
  <2> QED BY <2>1, <2>2 DEF Shared, Ghost, ReceiveIndex
<1> QED BY <1>1, <1>2

-----------------------------------------------------------------------------
\* A source is kept where the grid keeps it.

\* The local target of a source, by family.
LEMMA TargetFacts ==
  ASSUME NEW b, b.off \in Vectors, NEW s, s.v \in Vectors,
         \A a \in Axes : b.at[a] * b.whole[a] \in Int
  PROVE  /\ Target(b, s) \in Vectors
         /\ \A a \in Axes : /\ s.c[1] = "E" => Target(b, s)[a] = s.v[a] - b.off[a]
                            /\ s.c[1] # "E" => Target(b, s)[a] = s.v[a] - b.at[a] * b.whole[a]
BY DEF Target, IndexOrigin, Vectors

\* On the undivided grid a source keeps its cell.
LEMMA WholeTarget ==
  ASSUME split \in Partitions, NEW i \in DOMAIN split.sources
  PROVE  /\ Target(Whole, split.sources[i]) = split.sources[i].v
         /\ Kept(Whole, split.sources[i])
              <=> Active(Whole, split.sources[i].c, split.sources[i].v)
<1> DEFINE s == split.sources[i]
<1>1. s.v \in Vectors /\ s.c \in Component
  BY SourceFacts
<1>2. Whole.off \in Vectors /\ \A a \in Axes : Whole.off[a] = 0 /\ Whole.at[a] = 0 /\ Whole.whole[a] \in Int
  BY WholeGridFacts, SlabFacts DEF Sizes
<1> HIDE DEF s
<1>3. ASSUME NEW a \in Axes
      PROVE  Whole.at[a] * Whole.whole[a] = 0
  <2>1. Whole.at[a] = 0 /\ Whole.whole[a] \in Int
    BY <1>2
  <2>2. \A k \in Int : 0 * k = 0
    OBVIOUS
  <2> QED BY <2>1, <2>2
<1>4. /\ Target(Whole, s) \in Vectors
      /\ \A a \in Axes : Target(Whole, s)[a] = s.v[a] - Whole.off[a]
                         \/ Target(Whole, s)[a] = s.v[a] - Whole.at[a] * Whole.whole[a]
  BY <1>1, <1>2, <1>3, TargetFacts
<1>5. ASSUME NEW a \in Axes
      PROVE  Target(Whole, s)[a] = s.v[a]
  <2>1. s.v[a] \in Int
    BY <1>1 DEF Vectors
  <2>2. Whole.off[a] = 0 /\ Whole.at[a] * Whole.whole[a] = 0
    BY <1>2, <1>3
  <2> QED BY <1>4, <2>1, <2>2
<1>6. Target(Whole, s) = s.v
  BY <1>1, <1>4, <1>5, VectorEqual
<1>7. ~Elsewhere(Whole, s)
  BY WholeGridFacts DEF Elsewhere
<1> QED BY <1>6, <1>7 DEF Kept, s

\* On a slab it is shifted by the offset, or, magnetic on the upper slab, by
\* the size of the whole grid.
LEMMA SlabTarget ==
  ASSUME split \in Partitions, NEW r \in {0, 1}, NEW i \in DOMAIN split.sources
  PROVE  LET s == split.sources[i]
             t == Target(Slab(r), s)
         IN  /\ t \in Vectors
             /\ s.c[1] = "E" \/ r = 0 => t = Local(Slab(r), s.v) /\ Global(Slab(r), t) = s.v
             /\ s.c[1] # "E" /\ r = 1 => t[split.axis] = s.v[split.axis] - split.n[split.axis]
<1> DEFINE s == split.sources[i]
           t == Target(Slab(r), s)
<1>1. s.v \in Vectors /\ s.c \in Component /\ \A a \in Axes : s.v[a] \in Int
  BY SourceFacts DEF Vectors
<1>2. /\ Slab(r).off \in Vectors /\ Slab(r).whole = split.n /\ split.axis \in Axes
      /\ \A a \in Axes : /\ Slab(r).at[a] = IF a = split.axis THEN r ELSE 0
                         /\ Slab(r).whole[a] \in Int
  BY SlabFacts DEF Sizes
<1> HIDE DEF s, t
<1>3. ASSUME NEW a \in Axes
      PROVE  Slab(r).at[a] * Slab(r).whole[a] = IF a = split.axis /\ r = 1 THEN Slab(r).whole[a] ELSE 0
  <2>1. Slab(r).at[a] = 0 \/ Slab(r).at[a] = 1
    BY <1>2
  <2>2. \A k \in Int : 0 * k = 0 /\ 1 * k = k
    OBVIOUS
  <2>3. Slab(r).whole[a] \in Int /\ (Slab(r).at[a] = 1 <=> a = split.axis /\ r = 1)
    BY <1>2
  <2> QED BY <2>1, <2>2, <2>3
<1>4. /\ t \in Vectors
      /\ \A a \in Axes : /\ s.c[1] = "E" => t[a] = s.v[a] - Slab(r).off[a]
                         /\ s.c[1] # "E" => t[a] = s.v[a] - Slab(r).at[a] * Slab(r).whole[a]
  BY <1>1, <1>2, <1>3, TargetFacts DEF t
<1>5. ASSUME s.c[1] = "E" \/ r = 0
      PROVE  t = Local(Slab(r), s.v) /\ Global(Slab(r), t) = s.v
  <2>1. /\ Local(Slab(r), s.v) \in Vectors
        /\ \A a \in Axes : Local(Slab(r), s.v)[a] = s.v[a] - Slab(r).off[a]
        /\ Global(Slab(r), Local(Slab(r), s.v)) = s.v
    BY <1>1, <1>2, GlobalFacts
  <2>3. ASSUME NEW a \in Axes
        PROVE  t[a] = s.v[a] - Slab(r).off[a]
    <3>1. CASE s.c[1] = "E"
      BY <1>4, <3>1
    <3>2. CASE s.c[1] # "E"
      <4>1. r = 0
        BY <1>5, <3>2
      <4>2. Slab(r).off[a] = 0
        BY <4>1, SlabFacts
      <4>3. Slab(r).at[a] * Slab(r).whole[a] = 0
        BY <1>3, <4>1
      <4> QED BY <1>4, <3>2, <4>2, <4>3
    <3> QED BY <3>1, <3>2
  <2>4. t = Local(Slab(r), s.v)
    BY <1>4, <2>1, <2>3, VectorEqual
  <2> QED BY <2>1, <2>4
<1>6. ASSUME s.c[1] # "E", r = 1
      PROVE  t[split.axis] = s.v[split.axis] - split.n[split.axis]
  BY <1>2, <1>3, <1>4, <1>6
<1> QED BY <1>4, <1>5, <1>6 DEF s, t

\* Given that, each settled cell has on its rank the sources it has in the
\* whole grid.
LEMMA KeptMatch ==
  ASSUME split \in Partitions, MagneticBelowCut(split), NEW r \in {0, 1},
         NEW i \in DOMAIN split.sources,
         NEW v \in Cells(Slab(r).n, split.sources[i].c),
         ~Shared(r, split.sources[i].c, v)
  PROVE  Kept(Slab(r), split.sources[i]) /\ Target(Slab(r), split.sources[i]) = v
           <=> Kept(Whole, split.sources[i]) /\ Target(Whole, split.sources[i]) = Global(Slab(r), v)
<1> DEFINE s == split.sources[i]
           c == s.c
           g == Global(Slab(r), v)
           t == Target(Slab(r), s)
           n == Slab(r).n
           x == split.axis
<1>1. /\ s.v \in Vectors /\ c \in Component /\ c[1] \in {"E", "H"}
      /\ \A a \in Axes : s.v[a] \in Nat
  BY SourceFacts, ComponentFacts
<1>2. /\ v \in Vectors /\ g \in Cells(split.n, c)
      /\ \A a \in Axes : g[a] = v[a] + Slab(r).off[a]
      /\ \A a \in Axes : 0 <= v[a] /\ v[a] < Limit(n, c, a)
      /\ Local(Slab(r), g) = v
  BY <1>1, GlobalInside, SlabFacts, CellFacts, GlobalFacts
<1>3. Active(Slab(r), c, v) <=> Active(Whole, c, g)
  BY <1>1, ActiveMatch
<1>4. /\ Target(Whole, s) = s.v
      /\ Kept(Whole, s) <=> Active(Whole, c, s.v)
  BY WholeTarget
<1>5. /\ t \in Vectors
      /\ c[1] = "E" \/ r = 0 => t = Local(Slab(r), s.v) /\ Global(Slab(r), t) = s.v
      /\ c[1] # "E" /\ r = 1 => t[x] = s.v[x] - split.n[x]
  BY SlabTarget
<1>6. c[1] = "H" => s.v[x] < split.cut
  BY DEF MagneticBelowCut
<1>7. /\ x \in Axes /\ split.cut \in Int /\ split.n[x] \in Int
      /\ split.cut <= split.n[x] - 2
      /\ r = 1 => Slab(r).off[x] = split.cut
      /\ n \in Sizes /\ split.n \in Sizes /\ Slab(r).whole = split.n
      /\ r = 0 => n[x] = split.cut
      /\ \A a \in Axes : a # x => n[a] = split.n[a]
  BY SlabFacts DEF Sizes
<1>8. s.v[x] \in Nat /\ v[x] \in Int /\ 0 <= v[x]
  BY <1>1, <1>2, <1>7 DEF Vectors
<1> HIDE DEF s, c, g, t, n, x
<1>9. CASE c[1] = "H" /\ r = 1
  <2>1. t[x] < 0
    BY <1>5, <1>6, <1>7, <1>8, <1>9
  <2>2. g[x] >= split.cut
    BY <1>2, <1>7, <1>8, <1>9
  <2>3. t # v
    BY <1>8, <2>1
  <2>4. s.v # g
    BY <1>6, <1>7, <1>8, <1>9, <2>2
  <2> QED BY <1>4, <2>3, <2>4 DEF s, t, g
<1>10. CASE c[1] = "E" \/ r = 0
  <2>1. t = v <=> s.v = g
    BY <1>2, <1>5, <1>10 DEF g
  <2>2. ASSUME t = v, s.v = g
        PROVE  ~Elsewhere(Slab(r), s)
    <3>1. SUFFICES ASSUME ~Within(t, PointShape(n, c)), Within(g, PointShape(split.n, c))
                   PROVE  FALSE
      <4>1. Global(Slab(r), t) = g
        BY <1>5, <1>10, <2>2
      <4> QED BY <1>7, <3>1, <4>1 DEF Elsewhere, t, n, c
    <3>2. PICK a \in Axes : ~(0 <= v[a] /\ v[a] < PointShape(n, c)[a])
      BY <2>2, <3>1 DEF Within
    <3>3. v[a] \in Int /\ n[a] \in Int /\ 0 <= v[a] /\ v[a] < Limit(n, c, a)
      BY <1>2, <1>7 DEF Vectors, Sizes
    <3>4. CASE c[1] = "E"
      BY <3>2, <3>3, <3>4 DEF PointShape, Limit
    <3>5. CASE c[1] = "H" /\ r = 0
      <4>1. a # c[2]
        BY <3>2, <3>3, <3>5 DEF PointShape, Limit
      <4>2. PointShape(n, c)[a] = n[a] /\ PointShape(split.n, c)[a] = split.n[a]
        BY <3>5, <4>1 DEF PointShape
      <4>3. CASE a = x
        <5>1. v[a] < n[a]
          BY <1>2, <1>6, <1>7, <1>8, <2>2, <3>5, <4>3, SlabFacts DEF x
        <5> QED BY <3>2, <3>3, <4>2, <5>1
      <4>4. CASE a # x
        <5>1. g[a] = v[a] /\ n[a] = split.n[a]
          <6>1. Slab(r).off[a] = 0
            BY <4>4, SlabFacts DEF x
          <6> QED BY <1>2, <1>7, <3>3, <4>4, <6>1
        <5>2. g[a] < split.n[a]
          BY <3>1, <4>2 DEF Within
        <5> QED BY <3>2, <3>3, <4>2, <5>1, <5>2
      <4> QED BY <4>3, <4>4
    <3> QED BY <1>1, <1>10, <3>4, <3>5
  <2>3. ASSUME t = v, s.v = g
        PROVE  Kept(Slab(r), s) <=> Kept(Whole, s)
    BY <1>3, <1>4, <2>2, <2>3 DEF Kept, t, c
  <2> QED BY <1>4, <2>1, <2>3 DEF s, t, g
<1> QED BY <1>1, <1>9, <1>10

\* So the batches of the two views agree on every settled cell.
LEMMA PointsMatch ==
  ASSUME split \in Partitions, MagneticBelowCut(split), NEW r \in {0, 1},
         NEW c \in Component,
         NEW v \in Cells(Slab(r).n, c), ~Shared(r, c, v)
  PROVE  LET here  == PointSources(Slab(r), split.sources)
             there == PointSources(Whole, split.sources)
             g     == Global(Slab(r), v)
         IN  /\ <<c, v>> \in DOMAIN here <=> <<c, g>> \in DOMAIN there
             /\ <<c, v>> \in DOMAIN here =>
                  /\ here[<<c, v>>] = there[<<c, g>>]
                  /\ here[<<c, v>>].amp \in Int
<1> DEFINE S == split.sources
           here == PointSources(Slab(r), S)
           there == PointSources(Whole, S)
           g == Global(Slab(r), v)
           At1(i) == Kept(Slab(r), S[i]) /\ <<c, v>> = <<S[i].c, Target(Slab(r), S[i])>>
           At2(i) == Kept(Whole, S[i]) /\ <<c, g>> = <<S[i].c, Target(Whole, S[i])>>
<1>1. S \in Seq(PointSource) /\ DOMAIN S \subseteq Nat
  BY PartitionAssumption
<1>2. ASSUME NEW i \in DOMAIN S
      PROVE  At1(i) <=> At2(i)
  <2>1. CASE S[i].c = c
    <3>1. Kept(Slab(r), S[i]) /\ Target(Slab(r), S[i]) = v
            <=> Kept(Whole, S[i]) /\ Target(Whole, S[i]) = g
      BY <2>1, KeptMatch
    <3> QED BY <2>1, <3>1
  <2>2. CASE S[i].c # c
    BY <2>2
  <2> QED BY <2>1, <2>2
<1>3. <<c, v>> \in DOMAIN here <=> \E i \in DOMAIN S : At1(i)
  <2> HIDE DEF S
  <2> QED BY <1>1, PointSourcesFacts
<1>4. <<c, g>> \in DOMAIN there <=> \E i \in DOMAIN S : At2(i)
  <2> HIDE DEF S, g
  <2> QED BY <1>1, PointSourcesFacts
<1>5. <<c, v>> \in DOMAIN here => \E i \in DOMAIN S :
        At1(i) /\ here[<<c, v>>] = S[i] /\ \A j \in DOMAIN S : At1(j) => j <= i
  BY <1>1, PointSourcesFacts
<1>6. <<c, g>> \in DOMAIN there => \E i \in DOMAIN S :
        At2(i) /\ there[<<c, g>>] = S[i] /\ \A j \in DOMAIN S : At2(j) => j <= i
  BY <1>1, PointSourcesFacts
<1> HIDE DEF here, there, At1, At2, g
<1>7. <<c, v>> \in DOMAIN here <=> <<c, g>> \in DOMAIN there
  BY <1>2, <1>3, <1>4
<1>8. ASSUME <<c, v>> \in DOMAIN here
      PROVE  here[<<c, v>>] = there[<<c, g>>] /\ here[<<c, v>>].amp \in Int
  <2>1. PICK i \in DOMAIN S : At1(i) /\ here[<<c, v>>] = S[i] /\ \A j \in DOMAIN S : At1(j) => j <= i
    BY <1>5, <1>8
  <2>2. PICK k \in DOMAIN S : At2(k) /\ there[<<c, g>>] = S[k] /\ \A j \in DOMAIN S : At2(j) => j <= k
    BY <1>6, <1>7, <1>8
  <2>3. i <= k /\ k <= i
    BY <1>2, <2>1, <2>2
  <2>4. i = k
    BY <1>1, <2>3
  <2> QED BY <2>1, <2>2, <2>4, SourceFacts
<1> QED BY <1>7, <1>8 DEF here, there, g

-----------------------------------------------------------------------------
\* Every operation makes a state of a state.

\* A view of the split domain: each of its cells is one of the domain.
View(b) ==
  /\ b.n \in Sizes /\ b.off \in Vectors
  /\ \A c \in Component : \A v \in Cells(b.n, c) : Global(b, v) \in Cells(split.n, c)

\* The undivided grid and the slabs are views of the grid.
LEMMA Views ==
  ASSUME split \in Partitions
  PROVE  View(Whole) /\ \A r \in {0, 1} : View(Slab(r))
<1>1. View(Whole)
  <2>1. Whole.n \in Sizes /\ Whole.off \in Vectors /\ Whole.n = split.n
    BY SlabFacts, WholeGridFacts
  <2>2. ASSUME NEW c \in Component, NEW v \in Cells(Whole.n, c)
        PROVE  Global(Whole, v) \in Cells(split.n, c)
    <3>1. v \in Vectors
      BY <2>1, CellFacts
    <3> QED BY <2>1, <3>1, WholeGridFacts
  <2> QED BY <2>1, <2>2 DEF View
<1>2. ASSUME NEW r \in {0, 1} PROVE View(Slab(r))
  BY SlabFacts, GlobalInside DEF View
<1> QED BY <1>1, <1>2

\* Coefficients are integers.
LEMMA CoefficientType ==
  ASSUME split \in Partitions, NEW c \in Component, NEW g \in Cells(split.n, c)
  PROVE  Inverse(c, g) \in Int /\ DenseInverse(c, g) \in Int
<1>1. Inverse(c, g) \in Int
  BY ArrayAssumption, Zenon
<1>2. CASE <<c, g>> \in Drude \cup Frozen
  <2>1. DenseInverse(c, g) = 0
    BY <1>2, Zenon DEF DenseInverse
  <2> QED BY <1>1, <2>1
<1>3. CASE <<c, g>> \notin Drude \cup Frozen
  <2>1. DenseInverse(c, g) = Inverse(c, g)
    BY <1>3, Zenon DEF DenseInverse
  <2> QED BY <1>1, <2>1
<1> QED BY <1>2, <1>3

\* A wrap makes fields of fields.
LEMMA SyncType ==
  ASSUME NEW b, b.n \in Sizes, NEW F, IsFields(F, b.n), NEW e, NEW skip
  PROVE  IsFields(Sync(F, e, b, skip), b.n)
<1>1. ASSUME NEW c \in Component, NEW f \in [Cells(b.n, c) -> Values], NEW a \in Axes
      PROVE  SyncAxis(f, b, c, a, skip) \in [Cells(b.n, c) -> Values]
  <2>1. CASE a \in {c[2], skip}
    BY <2>1, SyncAxisSkips
  <2>2. CASE a \notin {c[2], skip}
    <3>1. a # c[2] /\ skip # a
      BY <2>2
    <3> QED BY <3>1, SyncAxisFacts
  <2> QED BY <2>1, <2>2
<1>2. ASSUME NEW c \in Component
      PROVE  Sync(F, e, b, skip)[c] \in [Cells(b.n, c) -> 0..(P - 1)]
  <2>1. F[c] \in [Cells(b.n, c) -> Values]
    BY DEF IsFields, Values
  <2>2. 1 \in Axes /\ 2 \in Axes /\ 3 \in Axes
    BY DEF Axes
  <2>3. SyncComponent(F[c], b, c, skip) \in [Cells(b.n, c) -> Values]
    BY <1>1, <2>1, <2>2 DEF SyncComponent
  <2> QED BY <2>1, <2>3 DEF Sync, Values
<1> QED BY <1>2 DEF IsFields

\* So does the dense update.
LEMMA DenseType ==
  ASSUME split \in Partitions, NEW b, View(b), NEW F, IsFields(F, b.n), NEW e
  PROVE  IsFields(Dense(F, e, b), b.n)
<1>1. ASSUME NEW c \in Component
      PROVE  Dense(F, e, b)[c] \in [Cells(b.n, c) -> 0..(P - 1)]
  <2>1. F[c] \in [Cells(b.n, c) -> 0..(P - 1)]
    BY DEF IsFields
  <2>2. ASSUME NEW v \in Cells(b.n, c), Active(b, c, v)
        PROVE  (F[c][v] + DenseInverse(c, Global(b, v)) * Curl(F, c, v)) % P \in 0..(P - 1)
    <3>1. F[c][v] \in Int
      BY <2>1, PType
    <3>2. DenseInverse(c, Global(b, v)) \in Int
      BY CoefficientType DEF View
    <3>3. Curl(F, c, v) \in Int
      BY <2>2, CurlType DEF View
    <3>4. F[c][v] + DenseInverse(c, Global(b, v)) * Curl(F, c, v) \in Int
      BY <3>1, <3>2, <3>3
    <3> QED BY <3>4, ModType
  <2>3. CASE c[1] # e
    BY <2>1, <2>3 DEF Dense
  <2>4. CASE c[1] = e
    <3>1. Dense(F, e, b)[c] = [v \in Cells(b.n, c) |->
             IF Active(b, c, v)
             THEN (F[c][v] + DenseInverse(c, Global(b, v)) * Curl(F, c, v)) % P
             ELSE F[c][v]]
      BY <2>4 DEF Dense
    <3> QED BY <2>1, <2>2, <3>1
  <2> QED BY <2>3, <2>4
<1> QED BY <1>1 DEF IsFields

\* What the materials make of the fields and of the polarisations.
MaterialF(S, e, b) ==
  [c \in Component |->
     IF c[1] # e THEN S.F[c]
     ELSE [v \in Cells(b.n, c) |->
             IF <<c, v>> \in DOMAIN S.Q
             THEN PoleField(S.Q[<<c, v>>], S.F[c][v], Curl(S.F, c, v))
             ELSE IF Active(b, c, v) /\ <<c, Global(b, v)>> \in Frozen
             THEN FrozenValue
             ELSE S.F[c][v]]]

MaterialQ(S, e) ==
  IF e = "H" THEN S.Q
  ELSE [d \in DOMAIN S.Q |-> <<S.Q[d][2], PoleNext(S.Q[d], S.F[d[1]][d[2]])>>]

\* What follows the dense update, with the record updates carried out.
LEMMA CompletedIs ==
  ASSUME NEW S, S = [F |-> S.F, Q |-> S.Q, points |-> S.points], NEW h, NEW b
  PROVE  Completed(S, h, b) = [F |-> Excite(MaterialF(S, Family(h), b), S.points, Family(h), b, h),
                               Q |-> MaterialQ(S, Family(h)), points |-> S.points]
<1>1. Materials(S, Family(h), b) = [F |-> MaterialF(S, Family(h), b), Q |-> MaterialQ(S, Family(h)),
                                    points |-> S.points]
  <2> DEFINE f == MaterialF(S, Family(h), b)
             q == MaterialQ(S, Family(h))
  <2>1. Materials(S, Family(h), b) = [S EXCEPT !.F = f, !.Q = q]
    BY DEF Materials, MaterialF, MaterialQ
  <2> HIDE DEF f, q
  <2>2. Materials(S, Family(h), b) = [F |-> f, Q |-> q, points |-> S.points]
    BY <2>1
  <2> QED BY <2>2 DEF f, q
<1> QED BY <1>1 DEF Completed, Fields

\* The cells a pole material holds in a view: its active cells in Drude.
LEMMA PoleCellFacts ==
  ASSUME split \in Partitions, NEW b, View(b), NEW c \in Component, NEW v \in Vectors
  PROVE  <<c, v>> \in PoleCells(b)
           <=> v \in Cells(b.n, c) /\ Active(b, c, v) /\ <<c, Global(b, v)>> \in Drude
<1>1. Local(b, Global(b, v)) = v
  BY GlobalFacts DEF View
<1>2. ASSUME <<c, v>> \in PoleCells(b)
      PROVE  v \in Cells(b.n, c) /\ Active(b, c, v) /\ <<c, Global(b, v)>> \in Drude
  <2>1. PICK d \in Drude : Owns(b, d[1], d[2]) /\ c = d[1] /\ v = Local(b, d[2])
    BY <1>2 DEF PoleCells
  <2>2. d \in Component \X (Nat \X Nat \X Nat)
    BY GridAssumption
  <2>3. d[2] \in Vectors /\ d = <<d[1], d[2]>>
    BY <2>2 DEF Vectors, Axes
  <2>4. Global(b, v) = d[2]
    BY <2>1, <2>3, GlobalFacts DEF View
  <2> QED BY <2>1, <2>3, <2>4 DEF Owns
<1>3. ASSUME v \in Cells(b.n, c), Active(b, c, v), <<c, Global(b, v)>> \in Drude
      PROVE  <<c, v>> \in PoleCells(b)
  <2> DEFINE d == <<c, Global(b, v)>>
  <2>1. Owns(b, d[1], d[2])
    BY <1>1, <1>3 DEF Owns
  <2>2. <<d[1], Local(b, d[2])>> = <<c, v>>
    BY <1>1
  <2> QED BY <1>3, <2>1, <2>2 DEF PoleCells
<1> QED BY <1>2, <1>3

\* And they are electric cells of the view.
LEMMA PoleKeys ==
  ASSUME split \in Partitions, NEW b, View(b), NEW d \in PoleCells(b)
  PROVE  /\ d[1] \in Component /\ d[1][1] = "E" /\ d = <<d[1], d[2]>>
         /\ d[2] \in Cells(b.n, d[1])
<1>1. PICK e \in Drude : Owns(b, e[1], e[2]) /\ d = <<e[1], Local(b, e[2])>>
  BY DEF PoleCells
<1>2. e \in Component \X (Nat \X Nat \X Nat) /\ e[1][1] = "E"
  BY GridAssumption
<1> QED BY <1>1, <1>2 DEF Owns

\* The recurrence yields residues.
LEMMA PoleType ==
  ASSUME NEW q \in Int \X Int, NEW e \in Int, NEW k \in Int
  PROVE  PoleNext(q, e) \in 0..(P - 1) /\ PoleField(q, e, k) \in 0..(P - 1)
<1>1. /\ PoleA[1] \in Int /\ PoleA[2] \in Int /\ PoleA[3] \in Int
      /\ PoleC[1] \in Int /\ PoleC[2] \in Int /\ PoleC[3] \in Int
  BY GridAssumption
<1>2. q[1] \in Int /\ q[2] \in Int
  OBVIOUS
<1>3. PoleA[1] * q[1] + PoleA[2] * q[2] + PoleA[3] * e \in Int
  BY <1>1, <1>2
<1>4. PoleNext(q, e) \in 0..(P - 1)
  BY <1>3, ModType DEF PoleNext
<1>5. PoleNext(q, e) \in Int
  BY <1>4, PType
<1>6. PoleC[1] * k + PoleC[2] * (PoleNext(q, e) - q[2]) + PoleC[3] * e \in Int
  BY <1>1, <1>2, <1>5
<1> QED BY <1>4, <1>6, ModType DEF PoleField

\* The material update makes fields of fields.
LEMMA MaterialsType ==
  ASSUME split \in Partitions, NEW b, View(b), NEW S, IsState(S, b), NEW e
  PROVE  /\ IsFields(MaterialF(S, e, b), b.n)
         /\ MaterialQ(S, e) \in [PoleCells(b) -> Int \X Int]
<1>1. S.Q \in [PoleCells(b) -> Int \X Int] /\ IsFields(S.F, b.n)
  BY DEF IsState
<1>2. ASSUME NEW c \in Component
      PROVE  MaterialF(S, e, b)[c] \in [Cells(b.n, c) -> 0..(P - 1)]
  <2>1. S.F[c] \in [Cells(b.n, c) -> 0..(P - 1)]
    BY <1>1 DEF IsFields
  <2>2. ASSUME NEW v \in Cells(b.n, c), <<c, v>> \in DOMAIN S.Q
        PROVE  PoleField(S.Q[<<c, v>>], S.F[c][v], Curl(S.F, c, v)) \in 0..(P - 1)
    <3>1. v \in Vectors /\ <<c, v>> \in PoleCells(b)
      BY <1>1, <2>2, CellFacts DEF View
    <3>2. Active(b, c, v)
      BY <3>1, PoleCellFacts
    <3>3. Curl(S.F, c, v) \in Int
      BY <1>1, <3>2, CurlType DEF View
    <3>4. S.F[c][v] \in Int
      BY <2>1, PType
    <3>5. S.Q[<<c, v>>] \in Int \X Int
      BY <1>1, <3>1
    <3> QED BY <3>3, <3>4, <3>5, PoleType
  <2>3. FrozenValue \in 0..(P - 1)
    BY GridAssumption
  <2>4. CASE c[1] # e
    BY <2>1, <2>4 DEF MaterialF
  <2>5. CASE c[1] = e
    <3>1. MaterialF(S, e, b)[c] = [v \in Cells(b.n, c) |->
             IF <<c, v>> \in DOMAIN S.Q
             THEN PoleField(S.Q[<<c, v>>], S.F[c][v], Curl(S.F, c, v))
             ELSE IF Active(b, c, v) /\ <<c, Global(b, v)>> \in Frozen
             THEN FrozenValue
             ELSE S.F[c][v]]
      BY <2>5 DEF MaterialF
    <3> QED BY <2>1, <2>2, <2>3, <3>1
  <2> QED BY <2>4, <2>5
<1>3. ASSUME NEW d \in PoleCells(b)
      PROVE  <<S.Q[d][2], PoleNext(S.Q[d], S.F[d[1]][d[2]])>> \in Int \X Int
  <2>1. d[1] \in Component /\ d[2] \in Cells(b.n, d[1])
    BY PoleKeys
  <2>2. S.F[d[1]] \in [Cells(b.n, d[1]) -> 0..(P - 1)]
    BY <1>1, <2>1 DEF IsFields
  <2>3. S.F[d[1]][d[2]] \in Int
    BY <2>1, <2>2, PType
  <2>4. S.Q[d] \in Int \X Int
    BY <1>1
  <2>5. PoleNext(S.Q[d], S.F[d[1]][d[2]]) \in 0..(P - 1)
    BY <2>3, <2>4, PoleType
  <2> QED BY <2>4, <2>5, PType
<1>4. MaterialQ(S, e) \in [PoleCells(b) -> Int \X Int]
  BY <1>1, <1>3 DEF MaterialQ
<1> QED BY <1>2, <1>4 DEF IsFields

\* So do the sources.
LEMMA ExciteType ==
  ASSUME split \in Partitions, NEW b, View(b), NEW F, IsFields(F, b.n), NEW e,
         NEW h \in Nat
  PROVE  IsFields(Excite(F, PointSources(b, split.sources), e, b, h), b.n)
<1> DEFINE points == PointSources(b, split.sources)
<1>1. ASSUME NEW t \in DOMAIN points
      PROVE  points[t].amp \in Int
  <2>1. split.sources \in Seq(PointSource)
    BY PartitionAssumption
  <2>2. \E i \in DOMAIN split.sources : points[t] = split.sources[i]
    BY <1>1, <2>1, PointSourcesFacts
  <2> QED BY <2>2, SourceFacts
<1> HIDE DEF points
<1>2. ASSUME NEW c \in Component
      PROVE  Excite(F, points, e, b, h)[c] \in [Cells(b.n, c) -> 0..(P - 1)]
  <2>1. F[c] \in [Cells(b.n, c) -> 0..(P - 1)]
    BY DEF IsFields
  <2> DEFINE new(v) == LET s == points[<<c, v>>]
                       IN  (IF s.current
                            THEN F[c][v] - Inverse(c, Global(b, v)) * s.amp * (h + 1)
                            ELSE s.amp * (h + 1)) % P
  <2>2. ASSUME NEW v \in Cells(b.n, c), <<c, v>> \in DOMAIN points
        PROVE  new(v) \in 0..(P - 1)
    <3>1. F[c][v] \in Int
      BY <2>1, PType
    <3>2. Inverse(c, Global(b, v)) \in Int
      BY CoefficientType DEF View
    <3>3. points[<<c, v>>].amp \in Int
      BY <1>1, <2>2
    <3>4. /\ F[c][v] - Inverse(c, Global(b, v)) * points[<<c, v>>].amp * (h + 1) \in Int
          /\ points[<<c, v>>].amp * (h + 1) \in Int
      BY <3>1, <3>2, <3>3
    <3> QED BY <3>4, ModType
  <2>3. CASE c[1] # e
    BY <2>1, <2>3 DEF Excite
  <2>4. CASE c[1] = e
    <3>1. Excite(F, points, e, b, h)[c] =
            [v \in Cells(b.n, c) |-> IF <<c, v>> \notin DOMAIN points THEN F[c][v] ELSE new(v)]
      BY <2>4, Zenon DEF Excite
    <3> HIDE DEF new
    <3> QED BY <2>1, <2>2, <3>1
  <2> QED BY <2>3, <2>4
<1> QED BY <1>2 DEF IsFields, points

\* What follows the dense update makes a state of a state.
LEMMA CompletedType ==
  ASSUME split \in Partitions, NEW b, View(b), NEW S, IsState(S, b), NEW h \in Nat
  PROVE  IsState(Completed(S, h, b), b)
<1> DEFINE F == Excite(MaterialF(S, Family(h), b), S.points, Family(h), b, h)
           Q == MaterialQ(S, Family(h))
<1>1. S = [F |-> S.F, Q |-> S.Q, points |-> S.points] /\ S.points = PointSources(b, split.sources)
  BY DEF IsState
<1>2. Completed(S, h, b) = [F |-> F, Q |-> Q, points |-> S.points]
  BY <1>1, CompletedIs
<1>3. IsFields(F, b.n) /\ Q \in [PoleCells(b) -> Int \X Int]
  BY <1>1, MaterialsType, ExciteType
<1> HIDE DEF F, Q
<1> QED BY <1>1, <1>2, <1>3 DEF IsState

\* New fields make a state of a state.
LEMMA FieldsType ==
  ASSUME NEW b, NEW S, IsState(S, b), NEW F, IsFields(F, b.n)
  PROVE  /\ IsState(Fields(S, F), b) /\ Fields(S, F).F = F /\ Fields(S, F).Q = S.Q
         /\ Fields(S, F).points = S.points
<1>1. Fields(S, F) = [F |-> F, Q |-> S.Q, points |-> S.points]
  BY DEF IsState, Fields
<1> QED BY <1>1 DEF IsState

\* A half step makes a state of a state.
LEMMA HalfStepType ==
  ASSUME split \in Partitions, NEW b, View(b), NEW S, IsState(S, b), NEW h \in Nat
  PROVE  IsState(HalfStep(S, h, b), b)
<1>1. IsState(Synced(S, h, b, 0), b)
  <2>1. IsFields(Sync(S.F, Other(Family(h)), b, 0), b.n)
    BY SyncType DEF IsState, View
  <2> QED BY <2>1, FieldsType DEF Synced
<1>2. IsState(Densed(Synced(S, h, b, 0), h, b), b)
  <2> DEFINE T == Synced(S, h, b, 0)
  <2>0. IsState(T, b)
    BY <1>1
  <2> HIDE DEF T
  <2>1. IsFields(Dense(T.F, Family(h), b), b.n)
    BY <2>0, DenseType DEF IsState
  <2>2. IsState(Densed(T, h, b), b)
    BY <2>0, <2>1, FieldsType DEF Densed
  <2> QED BY <2>2 DEF T
<1> QED BY <1>2, CompletedType DEF HalfStep

-----------------------------------------------------------------------------
\* Materials and sources preserve agreement.

\* Where a slab holds every cell the solver reads, ghosts included, its curls
\* are the solver's.
LEMMA CurlFull ==
  ASSUME split \in Partitions, NEW r \in {0, 1}, NEW c \in Component,
         NEW v \in Cells(Slab(r).n, c), Active(Slab(r), c, v), NEW F, NEW G,
         \A g \in Component : g[1] = Other(c[1]) =>
           \A u \in Cells(Slab(r).n, g) : F[g][u] = G[g][Global(Slab(r), u)]
  PROVE  Curl(F, c, v) = Curl(G, c, Global(Slab(r), v))
<1>1. /\ AxisB(c[2]) \in Axes /\ AxisC(c[2]) \in Axes /\ AxisB(c[2]) # c[2]
      /\ AxisC(c[2]) # c[2]
      /\ Slab(r).n \in Sizes
  BY ComponentFacts, AxisFacts, SlabFacts
<1>2. v \in Vectors /\ Global(Slab(r), v) \in Vectors
  BY SlabFacts, CellFacts, GlobalFacts
<1>3. ASSUME NEW d \in Axes, d # c[2]
      PROVE  Difference(F, c, v, d) = Difference(G, c, Global(Slab(r), v), d)
  <2>1. /\ High(c, v, d) \in Cells(Slab(r).n, Driver(c, d))
        /\ Low(c, v, d) \in Cells(Slab(r).n, Driver(c, d))
        /\ Driver(c, d) \in Component /\ Driver(c, d)[1] = Other(c[1])
    BY <1>1, <1>3, StencilInside, DriverFacts
  <2>2. /\ Global(Slab(r), High(c, v, d)) = High(c, Global(Slab(r), v), d)
        /\ Global(Slab(r), Low(c, v, d)) = Low(c, Global(Slab(r), v), d)
    BY <1>2, <1>3, StencilGlobal
  <2>3. /\ F[Driver(c, d)][High(c, v, d)] = G[Driver(c, d)][Global(Slab(r), High(c, v, d))]
        /\ F[Driver(c, d)][Low(c, v, d)] = G[Driver(c, d)][Global(Slab(r), Low(c, v, d))]
    BY <2>1
  <2> QED BY <2>2, <2>3 DEF Difference
<1>4. /\ Difference(F, c, v, AxisB(c[2])) = Difference(G, c, Global(Slab(r), v), AxisB(c[2]))
      /\ Difference(F, c, v, AxisC(c[2])) = Difference(G, c, Global(Slab(r), v), AxisC(c[2]))
  BY <1>1, <1>3
<1> QED BY <1>2, <1>4, CurlIsDifferences

\* Half steps alternate, and the halo carries the other family.
LEMMA FamilyFacts ==
  \A h \in Nat : /\ Family(h) \in {"E", "H"} /\ Other(Family(h)) \in {"E", "H"}
                 /\ Other(Family(h)) # Family(h) /\ Other(Other(Family(h))) = Family(h)
                 /\ Carried(h) = Other(Family(h))
                 /\ \A e \in {"E", "H"} : e # Family(h) => e = Other(Family(h))
BY DEF Family, Other, Carried

\* A state of a slab that agrees with one of the single-process solver.
Matches(S, T, r, e) ==
  /\ \A c \in Component : \A v \in Cells(Slab(r).n, c) :
       c[1] # e \/ ~Shared(r, c, v) => S.F[c][v] = T.F[c][Global(Slab(r), v)]
  /\ \A d \in DOMAIN S.Q : S.Q[d] = T.Q[<<d[1], Global(Slab(r), d[2])>>]

\* The materials make the same of both.
LEMMA MaterialsMatch ==
  ASSUME split \in Partitions, NEW r \in {0, 1}, NEW h \in Nat,
         NEW S, IsState(S, Slab(r)), NEW T, IsState(T, Whole),
         Matches(S, T, r, Family(h)),
         NEW c \in Component, NEW v \in Cells(Slab(r).n, c), ~Shared(r, c, v)
  PROVE  MaterialF(S, Family(h), Slab(r))[c][v]
           = MaterialF(T, Family(h), Whole)[c][Global(Slab(r), v)]
<1> DEFINE g == Global(Slab(r), v)
           e == Family(h)
<1>1. /\ View(Slab(r)) /\ View(Whole) /\ Whole.n = split.n
      /\ v \in Vectors /\ g \in Vectors /\ g \in Cells(split.n, c)
      /\ Global(Whole, g) = g
  BY Views, WholeGridFacts, GlobalInside, GlobalFacts, SlabFacts
<1>2. DOMAIN S.Q = PoleCells(Slab(r)) /\ DOMAIN T.Q = PoleCells(Whole)
  BY DEF IsState
<1>3. Active(Slab(r), c, v) <=> Active(Whole, c, g)
  BY ActiveMatch
<1>4. <<c, v>> \in DOMAIN S.Q <=> <<c, g>> \in DOMAIN T.Q
  BY <1>1, <1>2, <1>3, PoleCellFacts
<1>5. S.F[c][v] = T.F[c][g]
  BY DEF Matches
<1>6. CASE c[1] # e
  BY <1>5, <1>6 DEF MaterialF
<1>7. CASE c[1] = e
  <2>1. MaterialF(S, e, Slab(r))[c][v] =
          IF <<c, v>> \in DOMAIN S.Q
             THEN PoleField(S.Q[<<c, v>>], S.F[c][v], Curl(S.F, c, v))
             ELSE IF Active(Slab(r), c, v) /\ <<c, g>> \in Frozen
             THEN FrozenValue
             ELSE S.F[c][v]
    BY <1>7 DEF MaterialF
  <2>2. MaterialF(T, e, Whole)[c][g] =
          IF <<c, g>> \in DOMAIN T.Q
             THEN PoleField(T.Q[<<c, g>>], T.F[c][g], Curl(T.F, c, g))
             ELSE IF Active(Whole, c, g) /\ <<c, g>> \in Frozen
             THEN FrozenValue
             ELSE T.F[c][g]
    BY <1>1, <1>7 DEF MaterialF
  <2>3. ASSUME <<c, v>> \in DOMAIN S.Q
        PROVE  S.Q[<<c, v>>] = T.Q[<<c, g>>] /\ Curl(S.F, c, v) = Curl(T.F, c, g)
    <3>1. S.Q[<<c, v>>] = T.Q[<<c, g>>]
      BY <2>3 DEF Matches
    <3>2. Active(Slab(r), c, v)
      BY <1>1, <1>2, <2>3, PoleCellFacts
    <3>3. \A k \in Component : k[1] = Other(c[1]) =>
            \A u \in Cells(Slab(r).n, k) : S.F[k][u] = T.F[k][Global(Slab(r), u)]
      BY <1>7, FamilyFacts DEF Matches
    <3>4. Curl(S.F, c, v) = Curl(T.F, c, g)
      <4> DEFINE F == S.F
                 G == T.F
      <4>1. \A k \in Component : k[1] = Other(c[1]) =>
              \A u \in Cells(Slab(r).n, k) : F[k][u] = G[k][Global(Slab(r), u)]
        BY <3>3
      <4> HIDE DEF F, G
      <4>2. Curl(F, c, v) = Curl(G, c, Global(Slab(r), v))
        <5>1. /\ split \in Partitions /\ r \in {0, 1} /\ c \in Component
              /\ v \in Cells(Slab(r).n, c)
          OBVIOUS
        <5>2. \A X, Y : (\A k \in Component : k[1] = Other(c[1]) =>
              \A u \in Cells(Slab(r).n, k) : X[k][u] = Y[k][Global(Slab(r), u)]) => Curl(X, c, v) = Curl(Y, c, Global(Slab(r), v))
          BY <3>2, <5>1, CurlFull
        <5> QED BY <4>1, <5>2
      <4> QED BY <4>2 DEF F, G
    <3> QED BY <3>1, <3>4
  <2> HIDE DEF g
  <2>4. CASE <<c, v>> \in DOMAIN S.Q
    BY <1>4, <1>5, <2>1, <2>2, <2>3, <2>4 DEF g
  <2>5. CASE <<c, v>> \notin DOMAIN S.Q
    BY <1>3, <1>4, <1>5, <2>1, <2>2, <2>5 DEF g
  <2> QED BY <2>4, <2>5
<1> QED BY <1>6, <1>7

\* And the point sources.
LEMMA ExciteMatch ==
  ASSUME split \in Partitions, MagneticBelowCut(split), NEW r \in {0, 1}, NEW h, NEW e,
         NEW c \in Component, NEW v \in Cells(Slab(r).n, c), ~Shared(r, c, v),
         NEW F, NEW G, F[c][v] = G[c][Global(Slab(r), v)]
  PROVE  Excite(F, PointSources(Slab(r), split.sources), e, Slab(r), h)[c][v]
           = Excite(G, PointSources(Whole, split.sources), e, Whole, h)[c][Global(Slab(r), v)]
<1> DEFINE g == Global(Slab(r), v)
           here == PointSources(Slab(r), split.sources)
           there == PointSources(Whole, split.sources)
           lit(f, s) == (IF s.current THEN f - Inverse(c, g) * s.amp * (h + 1) ELSE s.amp * (h + 1)) % P
<1>1. /\ Whole.n = split.n /\ g \in Cells(split.n, c) /\ Global(Whole, g) = g
  BY WholeGridFacts, GlobalInside, GlobalFacts, SlabFacts
<1>2. /\ <<c, v>> \in DOMAIN here <=> <<c, g>> \in DOMAIN there
      /\ <<c, v>> \in DOMAIN here => here[<<c, v>>] = there[<<c, g>>]
  BY PointsMatch
<1> HIDE DEF here, there
<1>3. CASE c[1] # e
  BY <1>3 DEF Excite
<1>4. CASE c[1] = e
  <2>1. Excite(F, here, e, Slab(r), h)[c][v] =
          IF <<c, v>> \notin DOMAIN here THEN F[c][v] ELSE lit(F[c][v], here[<<c, v>>])
    BY <1>4 DEF Excite
  <2>2. Excite(G, there, e, Whole, h)[c][g] =
          IF <<c, g>> \notin DOMAIN there THEN G[c][g] ELSE lit(G[c][g], there[<<c, g>>])
    BY <1>1, <1>4 DEF Excite
  <2> HIDE DEF g, lit
  <2>3. F[c][v] = G[c][g]
    BY DEF g
  <2> QED BY <1>2, <2>1, <2>2, <2>3 DEF here, there, g
<1> QED BY <1>3, <1>4 DEF here, there

\* Together: materials and sources preserve the agreement.
LEMMA CompletedMatch ==
  ASSUME split \in Partitions, MagneticBelowCut(split), NEW r \in {0, 1}, NEW h \in Nat,
         NEW S, IsState(S, Slab(r)), NEW T, IsState(T, Whole),
         Matches(S, T, r, Family(h))
  PROVE  /\ \A c \in Component : \A v \in Cells(Slab(r).n, c) : ~Shared(r, c, v) =>
              Completed(S, h, Slab(r)).F[c][v] = Completed(T, h, Whole).F[c][Global(Slab(r), v)]
         /\ \A d \in DOMAIN Completed(S, h, Slab(r)).Q :
              Completed(S, h, Slab(r)).Q[d]
                = Completed(T, h, Whole).Q[<<d[1], Global(Slab(r), d[2])>>]
<1> DEFINE e == Family(h)
           MS == MaterialF(S, e, Slab(r))
           MT == MaterialF(T, e, Whole)
<1>1. /\ S = [F |-> S.F, Q |-> S.Q, points |-> S.points]
      /\ T = [F |-> T.F, Q |-> T.Q, points |-> T.points]
      /\ S.points = PointSources(Slab(r), split.sources)
      /\ T.points = PointSources(Whole, split.sources)
      /\ DOMAIN S.Q = PoleCells(Slab(r)) /\ DOMAIN T.Q = PoleCells(Whole)
  BY DEF IsState
<1>2. /\ Completed(S, h, Slab(r)).F = Excite(MS, S.points, e, Slab(r), h)
      /\ Completed(S, h, Slab(r)).Q = MaterialQ(S, e)
  BY <1>1, CompletedIs
<1>3. /\ Completed(T, h, Whole).F = Excite(MT, T.points, e, Whole, h)
      /\ Completed(T, h, Whole).Q = MaterialQ(T, e)
  BY <1>1, CompletedIs
<1>4. ASSUME NEW c \in Component, NEW v \in Cells(Slab(r).n, c), ~Shared(r, c, v)
      PROVE  Completed(S, h, Slab(r)).F[c][v] = Completed(T, h, Whole).F[c][Global(Slab(r), v)]
  <2>1. MS[c][v] = MT[c][Global(Slab(r), v)]
    BY <1>4, MaterialsMatch
  <2> HIDE DEF MS, MT, e
  <2> QED BY <1>1, <1>2, <1>3, <1>4, <2>1, ExciteMatch
<1>5. ASSUME NEW d \in DOMAIN Completed(S, h, Slab(r)).Q
      PROVE  Completed(S, h, Slab(r)).Q[d]
               = Completed(T, h, Whole).Q[<<d[1], Global(Slab(r), d[2])>>]
  <2> DEFINE k == <<d[1], Global(Slab(r), d[2])>>
  <2>1. d \in PoleCells(Slab(r))
    BY <1>1, <1>2, <1>5 DEF MaterialQ
  <2>2. /\ d[1] \in Component /\ d[1][1] = "E" /\ d = <<d[1], d[2]>>
        /\ d[2] \in Cells(Slab(r).n, d[1])
        /\ View(Slab(r)) /\ View(Whole)
    BY <2>1, Views, PoleKeys
  <2>3. d[2] \in Vectors /\ Global(Slab(r), d[2]) \in Vectors
    BY <2>2, SlabFacts, CellFacts, GlobalFacts
  <2>4. Active(Slab(r), d[1], d[2]) /\ <<d[1], Global(Slab(r), d[2])>> \in Drude
    BY <2>1, <2>2, <2>3, PoleCellFacts
  <2>5. ~Shared(r, d[1], d[2])
    BY <2>2, <2>4, ActiveSettled
  <2>6. Active(Whole, d[1], Global(Slab(r), d[2]))
    BY <2>2, <2>4, <2>5, ActiveMatch
  <2>7. /\ Global(Slab(r), d[2]) \in Cells(Whole.n, d[1])
        /\ Global(Whole, Global(Slab(r), d[2])) = Global(Slab(r), d[2])
    BY <2>2, <2>3, GlobalInside, WholeGridFacts
  <2>8. k \in PoleCells(Whole)
    BY <2>2, <2>3, <2>4, <2>6, <2>7, PoleCellFacts
  <2>9. S.Q[d] = T.Q[k] /\ S.F[d[1]][d[2]] = T.F[k[1]][k[2]]
    BY <1>1, <2>1, <2>2, <2>5 DEF Matches
  <2> HIDE DEF k
  <2> QED BY <1>1, <1>2, <1>3, <2>1, <2>8, <2>9 DEF MaterialQ, k
<1> QED BY <1>4, <1>5

-----------------------------------------------------------------------------
\* The single-process run.

\* The recursion of Trajectory has a solution, so it is the single-process run.
LEMMA TrajectorySteps ==
  ASSUME NEW S, NEW b
  PROVE  LET at == Trajectory(S, b, Steps)
         IN  /\ at[0] = S
             /\ \A h \in 0..(2 * Steps - 1) : at[h + 1] = HalfStep(at[h], h, b)
<1> DEFINE Solves(f, m) ==
             f = [h \in 0..m |-> IF h = 0 THEN S ELSE HalfStep(f[h - 1], h - 1, b)]
           Good == {m \in Nat : \E f : Solves(f, m)}
<1>1. 0 \in Good
  <2> DEFINE f == [h \in 0..0 |-> S]
  <2>1. Solves(f, 0)
    OBVIOUS
  <2> HIDE DEF Solves
  <2> QED BY <2>1
<1>2. ASSUME NEW m \in Nat, m \in Good
      PROVE  m + 1 \in Good
  <2>1. PICK f : Solves(f, m)
    BY <1>2
  <2> DEFINE k == [h \in 0..(m + 1) |-> IF h = m + 1 THEN HalfStep(f[m], m, b) ELSE f[h]]
  <2>2. ASSUME NEW h \in 0..(m + 1)
        PROVE  k[h] = IF h = 0 THEN S ELSE HalfStep(k[h - 1], h - 1, b)
    <3>1. CASE h = m + 1
      <4>1. k[h] = HalfStep(f[m], m, b) /\ k[h - 1] = f[m] /\ h - 1 = m /\ h # 0
        BY <3>1
      <4> HIDE DEF k
      <4> QED BY <4>1
    <3>2. CASE h # m + 1
      <4>1. h \in 0..m
        BY <3>2
      <4>2. f[h] = IF h = 0 THEN S ELSE HalfStep(f[h - 1], h - 1, b)
        BY <2>1, <4>1
      <4>3. k[h] = f[h] /\ (h # 0 => k[h - 1] = f[h - 1])
        BY <4>1
      <4> HIDE DEF k
      <4> QED BY <4>2, <4>3
    <3> QED BY <3>1, <3>2
  <2>3. Solves(k, m + 1)
    <3>1. k = [h \in 0..(m + 1) |-> k[h]]
      OBVIOUS
    <3> HIDE DEF k
    <3> QED BY <2>2, <3>1
  <2> HIDE DEF Solves, k
  <2> QED BY <2>3
<1>3. 2 * Steps \in Nat
  BY StepsAssumption
<1>4. 2 * Steps \in Good
  <2> HIDE DEF Good
  <2> QED BY <1>1, <1>2, <1>3, NatSetInduction
<1>5. \E f : Solves(f, 2 * Steps)
  BY <1>4
<1> DEFINE at == CHOOSE f : Solves(f, 2 * Steps)
<1>6. Solves(at, 2 * Steps)
  <2> HIDE DEF Solves
  <2> QED BY <1>5
<1>7. Trajectory(S, b, Steps) = at
  BY DEF Trajectory
<1> HIDE DEF at
<1>8. at[0] = S
  BY <1>3, <1>6
<1>9. ASSUME NEW h \in 0..(2 * Steps - 1)
      PROVE  at[h + 1] = HalfStep(at[h], h, b)
  <2>1. h + 1 \in 0..(2 * Steps) /\ h + 1 # 0 /\ (h + 1) - 1 = h
    BY <1>3
  <2>2. at[h + 1] = IF h + 1 = 0 THEN S ELSE HalfStep(at[(h + 1) - 1], (h + 1) - 1, b)
    BY <1>6, <2>1
  <2> QED BY <2>1, <2>2
<1> QED BY <1>7, <1>8, <1>9

\* All its states are proper ones.
LEMMA TrajectoryType ==
  ASSUME split \in Partitions, NEW S, IsState(S, Whole)
  PROVE  \A h \in 0..(2 * Steps) : IsState(Trajectory(S, Whole, Steps)[h], Whole)
<1> DEFINE at == Trajectory(S, Whole, Steps)
           Good == {m \in Nat : m <= 2 * Steps => IsState(at[m], Whole)}
<1>1. at[0] = S /\ \A h \in 0..(2 * Steps - 1) : at[h + 1] = HalfStep(at[h], h, Whole)
  BY TrajectorySteps
<1> HIDE DEF at
<1>2. 0 \in Good
  BY <1>1
<1>3. 2 * Steps \in Nat
  BY StepsAssumption
<1>4. ASSUME NEW m \in Nat, m \in Good
      PROVE  m + 1 \in Good
  <2>1. CASE m + 1 <= 2 * Steps
    <3>1. m \in 0..(2 * Steps - 1) /\ IsState(at[m], Whole)
      BY <1>3, <1>4, <2>1
    <3>2. IsState(HalfStep(at[m], m, Whole), Whole)
      BY <3>1, Views, HalfStepType
    <3> QED BY <1>1, <3>1, <3>2
  <2>2. CASE ~(m + 1 <= 2 * Steps)
    BY <2>2
  <2> QED BY <2>1, <2>2
<1>5. Nat \subseteq Good
  <2> HIDE DEF Good
  <2> QED BY <1>2, <1>4, NatSetInduction
<1> QED BY <1>3, <1>5 DEF at

-----------------------------------------------------------------------------
\* Begin and Compute.

\* Half step h of the single-process run, in the parts the ranks interleave.
LEMMA SerialFacts ==
  ASSUME split \in Partitions, NEW h \in Nat, IsState(serial[h], Whole)
  PROVE  /\ IsFields(serial[h].F, split.n) /\ IsFields(Wrapped(h), split.n)
         /\ IsFields(Driven(h), split.n)
         /\ \A c \in Component :
              /\ c[1] = Carried(h) => Wrapped(h)[c] = SyncComponent(serial[h].F[c], Whole, c, 0)
              /\ c[1] # Carried(h) => Wrapped(h)[c] = serial[h].F[c]
              /\ c[1] # Family(h) => Driven(h)[c] = Wrapped(h)[c]
         /\ \A c \in Component : \A g \in Cells(split.n, c) : c[1] = Family(h) =>
              Driven(h)[c][g] = IF Active(Whole, c, g)
                                THEN (Wrapped(h)[c][g] + DenseInverse(c, g) * Curl(Wrapped(h), c, g)) % P
                                ELSE Wrapped(h)[c][g]
         /\ \E T : /\ IsState(T, Whole) /\ T.F = Driven(h) /\ T.Q = serial[h].Q
                   /\ HalfStep(serial[h], h, Whole) = Completed(T, h, Whole)
<1>1. View(Whole) /\ Whole.n = split.n /\ split.n \in Sizes
  BY Views, WholeGridFacts, SlabFacts
<1>2. IsFields(serial[h].F, Whole.n)
  BY DEF IsState
<1>3. IsFields(Wrapped(h), Whole.n)
  BY <1>1, <1>2, SyncType DEF Wrapped
<1>4. IsFields(Driven(h), Whole.n)
  BY <1>1, <1>3, DenseType DEF Driven
<1>5. \A c \in Component :
              /\ c[1] = Carried(h) => Wrapped(h)[c] = SyncComponent(serial[h].F[c], Whole, c, 0)
              /\ c[1] # Carried(h) => Wrapped(h)[c] = serial[h].F[c]
  BY DEF Wrapped, Sync
<1>6. \A c \in Component : c[1] # Family(h) => Driven(h)[c] = Wrapped(h)[c]
  BY DEF Driven, Dense
<1>7. ASSUME NEW c \in Component, NEW g \in Cells(split.n, c), c[1] = Family(h)
      PROVE  Driven(h)[c][g] = IF Active(Whole, c, g)
                               THEN (Wrapped(h)[c][g] + DenseInverse(c, g) * Curl(Wrapped(h), c, g)) % P
                               ELSE Wrapped(h)[c][g]
  <2>1. Global(Whole, g) = g
    BY <1>1, CellFacts, WholeGridFacts
  <2>2. Driven(h)[c] = [v \in Cells(Whole.n, c) |->
             IF Active(Whole, c, v)
             THEN (Wrapped(h)[c][v] + DenseInverse(c, Global(Whole, v)) * Curl(Wrapped(h), c, v)) % P
             ELSE Wrapped(h)[c][v]]
    BY <1>7 DEF Driven, Dense
  <2> QED BY <1>1, <2>1, <2>2
<1>8. \E T : /\ IsState(T, Whole) /\ T.F = Driven(h) /\ T.Q = serial[h].Q
             /\ HalfStep(serial[h], h, Whole) = Completed(T, h, Whole)
  <2> DEFINE U == Synced(serial[h], h, Whole, 0)
             T == Densed(U, h, Whole)
  <2>1. U = Fields(serial[h], Wrapped(h))
    BY DEF Synced, Wrapped, Carried
  <2>2. IsState(U, Whole) /\ U.F = Wrapped(h) /\ U.Q = serial[h].Q
    <3> HIDE DEF U
    <3> QED BY <1>3, <2>1, FieldsType
  <2>3. T = Fields(U, Driven(h))
    <3> HIDE DEF U
    <3> QED BY <2>2 DEF Densed, Driven
  <2>4. IsState(T, Whole) /\ T.F = Driven(h) /\ T.Q = serial[h].Q
    <3> HIDE DEF U, T
    <3> QED BY <1>4, <2>2, <2>3, FieldsType
  <2>5. HalfStep(serial[h], h, Whole) = Completed(T, h, Whole)
    BY DEF HalfStep
  <2> HIDE DEF T
  <2> QED BY <2>4, <2>5
<1> QED BY <1>1, <1>2, <1>3, <1>4, <1>5, <1>6, <1>7, <1>8

\* The plane the peer updates is the ghost plane.
LEMMA GhostShared == \A r, c, v : Shared(r, c, v) => Ghost(r, c, v)
BY DEF Shared

\* Begin: the interior is wrapped, and the packed planes are the images that
\* the peer's ghosts need.
LEMMA BeginStep ==
  ASSUME split \in Partitions, NEW r \in {0, 1}, NEW h \in Nat,
         IsState(serial[h], Whole),
         NEW S, IsState(S, Slab(r)), Settled(S.F, r, h)
  PROVE  LET T == Synced(S, h, Slab(r), split.axis)
         IN  /\ IsState(T, Slab(r)) /\ T.Q = S.Q
             /\ Launched(T.F, r, h)
             /\ \A c \in HaloComponents(Carried(h)) : \A v \in Plane(split, c) :
                  (WrapFactor(r, Carried(h)) * T.F[c][At(v, split.axis, SendIndex(r, Carried(h)))]) % P
                    = Image(h, Peer(r), c, v)
<1> DEFINE F == Sync(S.F, Other(Family(h)), Slab(r), split.axis)
           T == Synced(S, h, Slab(r), split.axis)
<1>1. Slab(r).n \in Sizes /\ IsFields(S.F, Slab(r).n) /\ Carried(h) = Other(Family(h))
  BY SlabFacts, FamilyFacts DEF IsState
<1>2. IsFields(F, Slab(r).n)
  BY <1>1, SyncType
<1>3. IsState(T, Slab(r)) /\ T.Q = S.Q /\ T.F = F
  <2> HIDE DEF F
  <2>1. T = Fields(S, F)
    BY DEF Synced, F
  <2> HIDE DEF T
  <2> QED BY <1>2, <2>1, FieldsType
<1>4. \A c \in Component :
        /\ c[1] = Carried(h) => F[c] = SyncComponent(S.F[c], Slab(r), c, split.axis)
        /\ c[1] # Carried(h) => F[c] = S.F[c]
  BY <1>1 DEF Sync
<1>5. ASSUME NEW c \in Component
      PROVE  /\ S.F[c] \in [Cells(Slab(r).n, c) -> Values]
             /\ serial[h].F[c] \in [Cells(split.n, c) -> Values]
             /\ \A v \in Cells(Slab(r).n, c) :
                  ~Ghost(r, c, v) => S.F[c][v] = serial[h].F[c][Global(Slab(r), v)]
  <2>1. IsFields(serial[h].F, split.n)
    BY SerialFacts
  <2> QED BY <1>1, <2>1, GhostShared DEF IsFields, Settled, Values
<1> HIDE DEF F, T
<1>6. Launched(F, r, h)
  <2>1. ASSUME NEW c \in Component, NEW v \in Cells(Slab(r).n, c), c[1] = Carried(h),
               ~Ghost(r, c, v)
        PROVE  F[c][v] = Wrapped(h)[c][Global(Slab(r), v)]
    <3>1. SyncComponent(S.F[c], Slab(r), c, split.axis)[v]
            = SyncComponent(serial[h].F[c], Whole, c, 0)[Global(Slab(r), v)]
      BY <1>5, <2>1, SlabSynced
    <3> QED BY <1>4, <2>1, <3>1, SerialFacts
  <2>2. ASSUME NEW c \in Component, NEW v \in Cells(Slab(r).n, c), c[1] = Family(h),
               ~Shared(r, c, v)
        PROVE  F[c][v] = serial[h].F[c][Global(Slab(r), v)]
    <3>1. c[1] # Carried(h)
      BY <2>2, FamilyFacts
    <3> QED BY <1>4, <2>2, <3>1 DEF Settled
  <2> QED BY <2>1, <2>2 DEF Launched
<1>7. ASSUME NEW c \in HaloComponents(Carried(h)), NEW v \in Plane(split, c)
      PROVE  (WrapFactor(r, Carried(h)) * F[c][At(v, split.axis, SendIndex(r, Carried(h)))]) % P
               = Image(h, Peer(r), c, v)
  <2>1. c \in Component /\ c[1] = Carried(h) /\ c[2] # split.axis
    <3>1. Carried(h) \in {"E", "H"}
      BY FamilyFacts
    <3> QED BY <3>1 DEF HaloComponents, Component
  <2>2. (WrapFactor(r, c[1])
            * SyncComponent(S.F[c], Slab(r), c, split.axis)[At(v, split.axis, SendIndex(r, c[1]))]) % P
         = SyncComponent(serial[h].F[c], Whole, c, 0)
             [Global(Slab(Peer(r)), At(v, split.axis, ReceiveIndex(Peer(r), c[1])))]
    BY <1>5, <2>1, PackedIsImage
  <2>3. Wrapped(h)[c] = SyncComponent(serial[h].F[c], Whole, c, 0)
    BY <2>1, SerialFacts
  <2> QED BY <1>4, <2>1, <2>2, <2>3 DEF Image
<1> QED BY <1>3, <1>6, <1>7 DEF T

\* Compute: the dense update with whatever the ghosts hold.
LEMMA ComputeStep ==
  ASSUME split \in Partitions, NEW r \in {0, 1}, NEW h \in Nat,
         IsState(serial[h], Whole),
         NEW S, IsState(S, Slab(r)), Launched(S.F, r, h)
  PROVE  LET T == Densed(S, h, Slab(r))
         IN  IsState(T, Slab(r)) /\ T.Q = S.Q /\ Updated(T.F, r, h)
<1> DEFINE F == Dense(S.F, Family(h), Slab(r))
           T == Densed(S, h, Slab(r))
<1>1. Slab(r).n \in Sizes /\ IsFields(S.F, Slab(r).n) /\ View(Slab(r))
  BY SlabFacts, Views DEF IsState
<1>2. IsFields(F, Slab(r).n)
  BY <1>1, DenseType
<1>3. IsState(T, Slab(r)) /\ T.Q = S.Q /\ T.F = F
  <2> HIDE DEF F
  <2>1. T = Fields(S, F)
    BY DEF Densed, F
  <2> HIDE DEF T
  <2> QED BY <1>2, <2>1, FieldsType
<1>4. \A c \in Component : c[1] # Family(h) => F[c] = S.F[c]
  BY DEF Dense
<1>5. ASSUME NEW c \in Component, NEW v \in Cells(Slab(r).n, c), c[1] = Carried(h),
             ~Ghost(r, c, v)
      PROVE  F[c][v] = Wrapped(h)[c][Global(Slab(r), v)]
  <2>1. c[1] # Family(h)
    BY <1>5, FamilyFacts
  <2> QED BY <1>4, <1>5, <2>1 DEF Launched
<1>6. ASSUME NEW c \in Component, NEW v \in Cells(Slab(r).n, c), c[1] = Family(h),
             ~Shared(r, c, v)
      PROVE  LET g == Global(Slab(r), v)
             IN  F[c][v] = IF Active(Slab(r), c, v)
                           THEN (serial[h].F[c][g] + DenseInverse(c, g) * Curl(F, c, v)) % P
                           ELSE serial[h].F[c][g]
  <2>1. F[c][v] = IF Active(Slab(r), c, v)
                  THEN (S.F[c][v] + DenseInverse(c, Global(Slab(r), v)) * Curl(S.F, c, v)) % P
                  ELSE S.F[c][v]
    BY <1>6 DEF Dense
  <2>2. S.F[c][v] = serial[h].F[c][Global(Slab(r), v)]
    BY <1>6 DEF Launched
  <2>3. Curl(S.F, c, v) = Curl(F, c, v)
    <3>1. v \in Vectors
      BY <1>1, CellFacts
    <3>2. \A g \in Component : g[1] = Other(c[1]) => F[g] = S.F[g]
      BY <1>4, <1>6, FamilyFacts
    <3> HIDE DEF F
    <3> QED BY <3>1, <3>2, CurlReads
  <2> HIDE DEF F
  <2> QED BY <2>1, <2>2, <2>3
<1> HIDE DEF F, T
<1>7. Updated(F, r, h)
  BY <1>5, <1>6 DEF Updated
<1> QED BY <1>3, <1>7 DEF T

-----------------------------------------------------------------------------
\* Finish.

\* A tangential cell and its projection on the exchanged plane.
LEMMA PlaneOf ==
  ASSUME split \in Partitions, NEW r \in {0, 1}, NEW c \in Component, c[2] # split.axis,
         NEW v \in Cells(Slab(r).n, c)
  PROVE  /\ At(v, split.axis, 0) \in Plane(split, c)
         /\ At(At(v, split.axis, 0), split.axis, v[split.axis]) = v
         /\ At(At(v, split.axis, 0), split.axis, 0) = At(v, split.axis, 0)
         /\ At(v, split.axis, v[split.axis]) = v
<1> DEFINE x == split.axis
           u == At(v, x, 0)
<1>1. /\ v \in Vectors /\ x \in Axes /\ \A a \in Axes : 0 <= v[a] /\ v[a] < Limit(Slab(r).n, c, a)
      /\ v[x] \in Int /\ 0 \in Int
  BY SlabFacts, CellFacts DEF Vectors
<1>2. u \in Vectors /\ u[x] = 0 /\ \A a \in Axes : a # x => u[a] = v[a]
  BY <1>1, AtFacts
<1>3. At(u, x, v[x]) = v /\ At(u, x, 0) = u /\ At(v, x, v[x]) = v
  BY <1>1 DEF At, Vectors
<1>4. ASSUME NEW a \in Axes
      PROVE  0 <= u[a] /\ u[a] < Limit(split.n, c, a)
  <2>1. split.n[a] \in Nat \ {0}
    BY SlabFacts DEF Sizes
  <2>2. CASE a = x
    BY <1>2, <2>1, <2>2 DEF Limit
  <2>3. CASE a # x
    <3>1. u[a] = v[a] /\ Slab(r).n[a] = split.n[a]
      BY <1>2, <2>3, SlabFacts
    <3> QED BY <1>1, <3>1 DEF Limit
  <2> QED BY <2>2, <2>3
<1>5. u \in Cells(split.n, c)
  <2> HIDE DEF u
  <2> QED BY <1>2, <1>4, SlabFacts, CellFacts
<1> QED BY <1>2, <1>3, <1>5 DEF Plane

\* Finish: the correction makes the boundary cells what an update from the new
\* ghosts would have made them, and the ghosts are replaced.
LEMMA FinishStep ==
  ASSUME split \in Partitions, NEW r \in {0, 1}, NEW h \in Nat,
         IsState(serial[h], Whole),
         IsState(slab[r], Slab(r)), Updated(slab[r].F, r, h),
         \A c \in HaloComponents(Carried(h)) : \A v \in Plane(split, c) :
           receive[r][c][v] = Image(h, r, c, v)
  PROVE  LET F == FillGhosts(BoundaryCorrection(r, Family(h)), r, Carried(h))
         IN  IsFields(F, Slab(r).n) /\ Repaired(F, r, h)
<1> DEFINE x == split.axis
           S == slab[r].F
           B == BoundaryCorrection(r, Family(h))
           F == FillGhosts(B, r, Carried(h))
           W == Wrapped(h)
<1>1. /\ Slab(r).n \in Sizes /\ IsFields(S, Slab(r).n) /\ View(Slab(r)) /\ x \in Axes
      /\ IsFields(W, split.n) /\ IsFields(serial[h].F, split.n)
      /\ IsFields(Driven(h), split.n)
      /\ Family(h) \in {"E", "H"} /\ Carried(h) = Other(Family(h))
      /\ Carried(h) # Family(h)
      /\ Carried(h) \in {"E", "H"}
  BY SlabFacts, Views, SerialFacts, FamilyFacts DEF IsState
<1>2. \A c \in Component : c[1] # Family(h) => B[c] = S[c] /\ Driven(h)[c] = W[c]
  BY SerialFacts DEF BoundaryCorrection
\* A ghost cell receives what the single-process solver holds there.
<1>3. ASSUME NEW c \in Component, c[1] = Carried(h), NEW v \in Cells(Slab(r).n, c),
             Ghost(r, c, v)
      PROVE  receive[r][c][At(v, x, 0)] = W[c][Global(Slab(r), v)]
  <2>1. c[2] # x /\ v[x] = ReceiveIndex(r, c[1])
    BY <1>3 DEF Ghost
  <2>2. c \in HaloComponents(Carried(h))
    BY <1>3, <2>1, ComponentFacts DEF HaloComponents
  <2>3. At(v, x, 0) \in Plane(split, c) /\ At(At(v, x, 0), x, v[x]) = v
    BY <2>1, PlaneOf
  <2>4. receive[r][c][At(v, x, 0)] = Image(h, r, c, At(v, x, 0))
    BY <2>2, <2>3
  <2> QED BY <2>1, <2>3, <2>4 DEF Image
<1>4. ASSUME NEW c \in Component, c[1] = Carried(h), NEW v \in Cells(Slab(r).n, c)
      PROVE  F[c][v] = Driven(h)[c][Global(Slab(r), v)]
  <2>1. B[c] = S[c] /\ Driven(h)[c] = W[c] /\ DOMAIN S[c] = Cells(Slab(r).n, c)
    BY <1>1, <1>2, <1>4 DEF IsFields
  <2>2. ~Ghost(r, c, v) => S[c][v] = W[c][Global(Slab(r), v)]
    BY <1>4 DEF Updated
  <2> HIDE DEF B, S, W
  <2>3. CASE c \notin HaloComponents(Carried(h))
    <3>1. c[2] = x
      BY <1>4, <2>3, ComponentFacts DEF HaloComponents
    <3>2. ~Ghost(r, c, v)
      BY <3>1 DEF Ghost
    <3> QED BY <2>1, <2>2, <2>3, <3>2 DEF FillGhosts
  <2>4. CASE c \in HaloComponents(Carried(h))
    <3>1. c[2] # x
      BY <2>4 DEF HaloComponents
    <3>2. F[c][v] = IF v[x] = ReceiveIndex(r, Carried(h)) THEN receive[r][c][At(v, x, 0)] ELSE B[c][v]
      BY <2>1, <2>4 DEF FillGhosts
    <3>3. Ghost(r, c, v) <=> v[x] = ReceiveIndex(r, Carried(h))
      BY <1>4, <3>1 DEF Ghost
    <3> HIDE DEF F
    <3> QED BY <1>3, <1>4, <2>1, <2>2, <3>2, <3>3
  <2> QED BY <2>3, <2>4
<1>5. Agree(S, W, r, Carried(h))
  BY DEF Agree, Updated
<1>6. ASSUME NEW c \in Component, c[1] = Family(h)
      PROVE  F[c] = B[c]
  <2>1. c \notin HaloComponents(Carried(h))
    BY <1>1, <1>6 DEF HaloComponents
  <2> QED BY <2>1 DEF FillGhosts
<1>7. ASSUME NEW c \in Component, c[1] = Family(h), NEW v \in Cells(Slab(r).n, c)
      PROVE  B[c][v] =
               IF c[2] # x /\ v[x] = Edge(r, c[1]) /\ Active(Slab(r), c, v)
               THEN (S[c][v] + DenseInverse(c, Global(Slab(r), v)) * Sign(c[2]) * Rate[x]
                       * (receive[r][GhostOf(c)][At(GhostCell(c, v), x, 0)]
                            - S[GhostOf(c)][At(GhostCell(c, v), x, ReceiveIndex(r, Carried(h)))])) % P
               ELSE S[c][v]
  <2>1. CASE c[2] = x
    BY <1>7, <2>1 DEF BoundaryCorrection
  <2>2. CASE c[2] # x
    <3>1. GhostOf(c) = <<Other(Family(h)), Third(c[2])>> /\ GhostOf(c)[1] = Carried(h)
      BY <1>1, <1>7 DEF GhostOf
    <3>2. GhostCell(c, v) = IF Family(h) = "E" THEN Shift(v, c[2], 1) ELSE Shift(v, Third(c[2]), -1)
      BY <1>7 DEF GhostCell
    <3>3. Edge(r, c[1]) = IF Family(h) = "E" THEN 0 ELSE Slab(r).n[split.axis]
      BY <1>7 DEF Edge
    <3>4. GhostDelta(r, GhostOf(c), GhostCell(c, v))
            = receive[r][GhostOf(c)][At(GhostCell(c, v), x, 0)]
                            - S[GhostOf(c)][At(GhostCell(c, v), x, ReceiveIndex(r, Carried(h)))]
      BY <3>1 DEF GhostDelta
    <3>5. B[c][v] = IF v[x] = Edge(r, c[1]) /\ Active(Slab(r), c, v)
               THEN (S[c][v] + DenseInverse(c, Global(Slab(r), v)) * Sign(c[2]) * Rate[x]
                       * GhostDelta(r, GhostOf(c), GhostCell(c, v))) % P
               ELSE S[c][v]
      BY <1>7, <2>2, <3>1, <3>2, <3>3 DEF BoundaryCorrection, Sign
    <3> HIDE DEF B, S, x
    <3> QED BY <2>2, <3>4, <3>5
  <2> QED BY <2>1, <2>2
<1>8. ASSUME NEW c \in Component, c[1] = Family(h), NEW v \in Cells(Slab(r).n, c),
             ~Shared(r, c, v)
      PROVE  B[c][v] = Driven(h)[c][Global(Slab(r), v)]
  <2> DEFINE g == Global(Slab(r), v)
             d == DenseInverse(c, g)
             s == serial[h].F[c][g]
  <2>1. /\ g \in Cells(split.n, c)
        /\ Active(Slab(r), c, v) <=> Active(Whole, c, g)
    BY <1>8, GlobalInside, ActiveMatch
  <2>2. W[c][g] = s
    <3>1. c[1] # Carried(h)
      BY <1>1, <1>8
    <3> QED BY <3>1, SerialFacts
  <2>3. Driven(h)[c][g] = IF Active(Whole, c, g) THEN (s + d * Curl(W, c, g)) % P ELSE s
    BY <1>8, <2>1, <2>2, SerialFacts
  <2>4. S[c][v] = IF Active(Slab(r), c, v) THEN (s + d * Curl(S, c, v)) % P ELSE s
    BY <1>8 DEF Updated
  <2> HIDE DEF g, s, d, S, B, W, x
  <2>5. CASE ~Active(Slab(r), c, v)
    BY <1>7, <1>8, <2>1, <2>3, <2>4, <2>5 DEF g
  <2>6. CASE Active(Slab(r), c, v) /\ ~(c[2] # x /\ v[x] = Edge(r, c[1]))
    <3>1. Curl(S, c, v) = Curl(W, c, g)
      BY <1>1, <1>5, <1>8, <2>6, CurlSame DEF g, x
    <3> QED BY <1>7, <1>8, <2>1, <2>3, <2>4, <2>6, <3>1 DEF g
  <2>7. CASE Active(Slab(r), c, v) /\ c[2] # x /\ v[x] = Edge(r, c[1])
    <3> DEFINE k == GhostOf(c)
               w == GhostCell(c, v)
               change == W[k][Global(Slab(r), w)] - S[k][w]
    <3>1. /\ k \in Component /\ k[2] # x /\ k[1] = Other(c[1])
          /\ w \in Cells(Slab(r).n, k) /\ Ghost(r, k, w)
          /\ Curl(W, c, g) = Curl(S, c, v) + Sign(c[2]) * Rate[x] * change
      BY <1>1, <1>5, <1>8, <2>7, CurlChange DEF g, x
    <3>2. k[1] = Carried(h)
      BY <1>1, <1>8, <3>1
    <3>3. receive[r][k][At(w, x, 0)] = W[k][Global(Slab(r), w)]
      BY <1>3, <3>1, <3>2
    <3>4. At(w, x, ReceiveIndex(r, Carried(h))) = w
      <4>1. w[x] = ReceiveIndex(r, Carried(h))
        BY <3>1, <3>2 DEF Ghost, x
      <4>2. At(w, x, w[x]) = w
        BY <3>1, PlaneOf DEF x
      <4> QED BY <4>1, <4>2
    <3>5. B[c][v] = (S[c][v] + d * Sign(c[2]) * Rate[x] * change) % P
      BY <1>7, <1>8, <2>7, <3>3, <3>4 DEF d, g
    <3>6. change \in Int
      <4>1. /\ S[k] \in [Cells(Slab(r).n, k) -> 0..(P - 1)]
            /\ W[k] \in [Cells(split.n, k) -> 0..(P - 1)]
        BY <1>1, <3>1 DEF IsFields
      <4>2. Global(Slab(r), w) \in Cells(split.n, k)
        BY <3>1, GlobalInside
      <4>3. S[k][w] \in Int /\ W[k][Global(Slab(r), w)] \in Int
        <5> HIDE DEF k, w
        <5> QED BY <3>1, <4>1, <4>2, PType
      <4> QED BY <4>3
    <3>7. /\ s \in Int /\ d \in Int /\ Curl(S, c, v) \in Int /\ Sign(c[2]) \in Int
          /\ Rate[x] \in Int
      <4>1. s \in Int
        <5>1. serial[h].F[c] \in [Cells(split.n, c) -> 0..(P - 1)]
          BY <1>1 DEF IsFields
        <5> QED BY <2>1, <5>1, PType DEF s
      <4>2. d \in Int
        BY <2>1, CoefficientType DEF d
      <4>3. Curl(S, c, v) \in Int
        BY <1>1, <2>7, CurlType
      <4>4. Sign(c[2]) \in Int
        BY DEF Sign
      <4>5. Rate[x] \in Int
        BY <1>1, GridAssumption
      <4> QED BY <4>1, <4>2, <4>3, <4>4, <4>5
    <3> HIDE DEF change
    <3>8. Curl(W, c, g) \in Int
      <4>1. Sign(c[2]) * Rate[x] * change \in Int
        BY <3>6, <3>7
      <4> QED BY <3>1, <3>7, <4>1
    <3>9. (((s + d * Curl(S, c, v)) % P) + d * Sign(c[2]) * Rate[x] * change) % P
            = (s + d * Curl(W, c, g)) % P
      <4> DEFINE old == Curl(S, c, v)
                 new == Curl(W, c, g)
                 j == Sign(c[2])
                 q == Rate[x]
      <4>1. /\ old \in Int /\ new \in Int /\ j \in Int /\ q \in Int /\ change \in Int
            /\ s \in Int /\ d \in Int
        BY <3>6, <3>7, <3>8
      <4>2. new = old + j * q * change
        BY <3>1
      <4> HIDE DEF old, new, j, q
      <4> DEFINE e == j * q * change
      <4>3. e \in Int /\ d * j * q * change = d * e
        BY <4>1
      <4> HIDE DEF e
      <4>4. new = old + e
        BY <4>2 DEF e
      <4>5. (((s + d * old) % P) + d * e) % P = (s + d * new) % P
        <5>1. s + d * old \in Int /\ d * e \in Int
          BY <4>1, <4>3
        <5>2. (((s + d * old) % P) + d * e) % P = (s + d * old + d * e) % P
          BY <5>1, ModAdd
        <5>3. s + d * new = s + d * old + d * e
          BY <4>1, <4>3, <4>4
        <5> QED BY <5>2, <5>3
      <4> QED BY <4>3, <4>5 DEF old, new, j, q
    <3> QED BY <2>1, <2>3, <2>4, <2>7, <3>5, <3>9 DEF g
  <2> QED BY <2>5, <2>6, <2>7
<1>9. Repaired(F, r, h)
  <2>1. ASSUME NEW c \in Component, NEW v \in Cells(Slab(r).n, c),
               c[1] = Carried(h) \/ ~Shared(r, c, v)
        PROVE  F[c][v] = Driven(h)[c][Global(Slab(r), v)]
    <3>1. CASE c[1] = Carried(h)
      BY <1>4, <3>1
    <3>2. CASE c[1] # Carried(h)
      <4>1. c[1] = Family(h)
        BY <1>1, <3>2, ComponentFacts
      <4> HIDE DEF F, B
      <4> QED BY <1>6, <1>8, <2>1, <3>2, <4>1
    <3> QED BY <3>1, <3>2
  <2> HIDE DEF F
  <2> QED BY <2>1 DEF Repaired
<1>10. IsFields(F, Slab(r).n)
  <2>1. ASSUME NEW c \in Component
        PROVE  F[c] \in [Cells(Slab(r).n, c) -> 0..(P - 1)]
    <3>1. /\ S[c] \in [Cells(Slab(r).n, c) -> 0..(P - 1)]
          /\ Driven(h)[c] \in [Cells(split.n, c) -> 0..(P - 1)]
      BY <1>1 DEF IsFields
    <3>2. F[c] = [v \in Cells(Slab(r).n, c) |-> F[c][v]]
      <4>1. B[c] = [v \in Cells(Slab(r).n, c) |-> B[c][v]]
        <5>1. CASE c[1] # Family(h) \/ c[2] = x
          <6>1. B[c] = S[c]
            BY <5>1 DEF BoundaryCorrection
          <6> HIDE DEF B, S
          <6> QED BY <3>1, <6>1
        <5>2. CASE ~(c[1] # Family(h) \/ c[2] = x)
          BY <5>2 DEF BoundaryCorrection
        <5> QED BY <5>1, <5>2
      <4> HIDE DEF B
      <4>2. CASE c \notin HaloComponents(Carried(h))
        BY <4>1, <4>2 DEF FillGhosts
      <4>3. CASE c \in HaloComponents(Carried(h))
        <5>1. DOMAIN B[c] = Cells(Slab(r).n, c)
          BY <4>1
        <5> QED BY <4>3, <5>1 DEF FillGhosts
      <4> QED BY <4>2, <4>3
    <3>3. ASSUME NEW v \in Cells(Slab(r).n, c)
          PROVE  F[c][v] \in 0..(P - 1)
      <4> HIDE DEF F, B, S
      <4>1. CASE c[1] = Carried(h) \/ ~Shared(r, c, v)
        <5>1. F[c][v] = Driven(h)[c][Global(Slab(r), v)]
          BY <1>9, <4>1 DEF Repaired
        <5>2. Global(Slab(r), v) \in Cells(split.n, c)
          BY GlobalInside
        <5> QED BY <3>1, <5>1, <5>2
      <4>2. CASE ~(c[1] = Carried(h) \/ ~Shared(r, c, v))
        <5>1. c[1] = Family(h) /\ ~Active(Slab(r), c, v)
          BY <1>1, <4>2, ComponentFacts, ActiveSettled
        <5>2. F[c][v] = S[c][v]
          BY <1>6, <1>7, <5>1
        <5> QED BY <3>1, <5>2
      <4> QED BY <4>1, <4>2
    <3> HIDE DEF F
    <3> QED BY <3>2, <3>3
  <2> HIDE DEF F
  <2> QED BY <2>1 DEF IsFields
<1> QED BY <1>9, <1>10

-----------------------------------------------------------------------------
\* Post.

\* Post: the materials and sources make of a repaired slab what they make of
\* the single-process solver's fields.
LEMMA PostStep ==
  ASSUME split \in Partitions, MagneticBelowCut(split), NEW r \in {0, 1}, NEW h \in Nat,
         IsState(serial[h], Whole), serial[h + 1] = HalfStep(serial[h], h, Whole),
         NEW S, IsState(S, Slab(r)), Repaired(S.F, r, h),
         \A d \in DOMAIN S.Q : S.Q[d] = serial[h].Q[<<d[1], Global(Slab(r), d[2])>>]
  PROVE  LET T == Completed(S, h, Slab(r))
         IN  /\ IsState(T, Slab(r)) /\ Settled(T.F, r, h + 1)
             /\ \A d \in DOMAIN T.Q : T.Q[d] = serial[h + 1].Q[<<d[1], Global(Slab(r), d[2])>>]
<1>1. PICK T : /\ IsState(T, Whole) /\ T.F = Driven(h) /\ T.Q = serial[h].Q
               /\ HalfStep(serial[h], h, Whole) = Completed(T, h, Whole)
  BY SerialFacts
<1>2. Matches(S, T, r, Family(h))
  <2>1. \A c \in Component : c[1] # Family(h) => c[1] = Carried(h)
    BY FamilyFacts, ComponentFacts
  <2> QED BY <1>1, <2>1 DEF Matches, Repaired
<1>3. /\ \A c \in Component : \A v \in Cells(Slab(r).n, c) : ~Shared(r, c, v) =>
              Completed(S, h, Slab(r)).F[c][v] = Completed(T, h, Whole).F[c][Global(Slab(r), v)]
      /\ \A d \in DOMAIN Completed(S, h, Slab(r)).Q :
              Completed(S, h, Slab(r)).Q[d]
                = Completed(T, h, Whole).Q[<<d[1], Global(Slab(r), d[2])>>]
  BY <1>1, <1>2, CompletedMatch
<1>4. IsState(Completed(S, h, Slab(r)), Slab(r))
  BY Views, CompletedType
<1> QED BY <1>1, <1>3, <1>4 DEF Settled

-----------------------------------------------------------------------------
\* The initial states.

\* Every step of the fields is a step or a stutter of the protocol.
LEMMA ProtocolStep == HaloIInv /\ [Next]_vars => HaloIInv'
<1> SUFFICES ASSUME [Next]_vars PROVE [HaloNext]_control
  BY HaloNextIInv
<1>1. ASSUME NEW r \in Ranks,
             Begin(r) \/ Compute(r) \/ Deliver(r) \/ Finish(r) \/ Post(r)
      PROVE  HaloNext
  BY <1>1 DEF Begin, Compute, Deliver, Finish, Post, HaloNext
<1> QED BY <1>1 DEF Next, Terminated, vars, HaloTerminated

\* A cell a material holds on a slab is one it holds on the whole grid.
LEMMA PoleCellsMatch ==
  ASSUME split \in Partitions, NEW r \in {0, 1}, NEW d \in PoleCells(Slab(r))
  PROVE  <<d[1], Global(Slab(r), d[2])>> \in PoleCells(Whole)
<1>1. /\ d[1] \in Component /\ d[1][1] = "E" /\ d = <<d[1], d[2]>>
      /\ d[2] \in Cells(Slab(r).n, d[1])
      /\ View(Slab(r)) /\ View(Whole)
  BY Views, PoleKeys
<1>2. d[2] \in Vectors /\ Global(Slab(r), d[2]) \in Vectors
  BY <1>1, SlabFacts, CellFacts, GlobalFacts
<1>3. Active(Slab(r), d[1], d[2]) /\ <<d[1], Global(Slab(r), d[2])>> \in Drude
  BY <1>1, <1>2, PoleCellFacts
<1>4. Active(Whole, d[1], Global(Slab(r), d[2]))
  BY <1>1, <1>3, ActiveSettled, ActiveMatch
<1>5. /\ Global(Slab(r), d[2]) \in Cells(Whole.n, d[1])
      /\ Global(Whole, Global(Slab(r), d[2])) = Global(Slab(r), d[2])
  BY <1>1, <1>2, GlobalInside, WholeGridFacts
<1> QED BY <1>1, <1>2, <1>3, <1>4, <1>5, PoleCellFacts

\* The state a run starts from.
LEMMA StartType ==
  ASSUME NEW b, NEW F, IsFields(F, b.n)
  PROVE  /\ IsState(Start(F, b, split.sources), b) /\ Start(F, b, split.sources).F = F
         /\ Start(F, b, split.sources).Q = [d \in PoleCells(b) |-> <<0, 0>>]
BY DEF Start, IsState

\* The run starts from the same arrays on both sides.
LEMMA InitIInv == Init /\ MagneticBelowCut(split) => IInv
<1> SUFFICES ASSUME Init, MagneticBelowCut(split)
             PROVE  IInv
  OBVIOUS
<1>1. HaloIInv /\ split \in Partitions
  BY HaloInitIInv DEF Init
<1>2. half = [r \in {0, 1} |-> 0] /\ pc = [r \in {0, 1} |-> "idle"] /\ sending = [r \in {0, 1} |-> FALSE]
  BY DEF Init, HaloInit, Ranks
<1>3. PICK F \in HostFields(split.n) :
        /\ serial = Trajectory(Start(F, Whole, split.sources), Whole, Steps)
        /\ slab = [r \in Ranks |-> Start(LoadHostFields(F, split, r), Slab(r), split.sources)]
  BY DEF Init
<1>4. IsFields(F, split.n)
  BY <1>1, ArrayAssumption DEF IsFields
<1> DEFINE S == Start(F, Whole, split.sources)
           L(r) == LoadHostFields(F, split, r)
<1>5. IsState(S, Whole) /\ S.F = F /\ S.Q = [d \in PoleCells(Whole) |-> <<0, 0>>]
  BY <1>1, <1>4, WholeGridFacts, StartType
<1> HIDE DEF S
<1>6. /\ serial[0] = S
      /\ \A h \in 0..(2 * Steps) : IsState(serial[h], Whole)
      /\ \A h \in 0..(2 * Steps - 1) : serial[h + 1] = HalfStep(serial[h], h, Whole)
  BY <1>1, <1>3, <1>5, TrajectorySteps, TrajectoryType DEF S
<1>7. ASSUME NEW r \in {0, 1}
      PROVE  /\ IsState(slab[r], Slab(r)) /\ slab[r].F = L(r)
             /\ slab[r].Q = [d \in PoleCells(Slab(r)) |-> <<0, 0>>]
             /\ \A c \in Component : \A v \in Cells(Slab(r).n, c) : L(r)[c][v] = F[c][Global(Slab(r), v)]
  <2>1. L(r) = [c \in Component |-> [v \in Cells(Slab(r).n, c) |-> F[c][Global(Slab(r), v)]]]
    BY DEF LoadHostFields, Slab
  <2> HIDE DEF L
  <2>2. IsFields(L(r), Slab(r).n)
    <3>1. ASSUME NEW c \in Component
          PROVE  L(r)[c] \in [Cells(Slab(r).n, c) -> 0..(P - 1)]
      <4>1. F[c] \in [Cells(split.n, c) -> 0..(P - 1)]
        BY <1>4 DEF IsFields
      <4>2. \A v \in Cells(Slab(r).n, c) : F[c][Global(Slab(r), v)] \in 0..(P - 1)
        BY <1>1, <4>1, GlobalInside
      <4> QED BY <2>1, <4>2
    <3> QED BY <3>1 DEF IsFields
  <2>3. slab[r] = Start(L(r), Slab(r), split.sources)
    BY <1>3 DEF L, Ranks
  <2> QED BY <2>1, <2>2, <2>3, StartType
<1> HIDE DEF L
<1>8. ASSUME NEW r \in {0, 1}, NEW d \in DOMAIN slab[r].Q
      PROVE  slab[r].Q[d] = serial[half[r]].Q[<<d[1], Global(Slab(r), d[2])>>]
  <2>1. d \in PoleCells(Slab(r)) /\ half[r] = 0
    BY <1>2, <1>7, <1>8
  <2>2. <<d[1], Global(Slab(r), d[2])>> \in PoleCells(Whole)
    BY <1>1, <2>1, PoleCellsMatch
  <2> QED BY <1>5, <1>6, <1>7, <2>1, <2>2
<1>9. Typed
  <2>1. DOMAIN slab = Ranks
    BY <1>3
  <2>2. DOMAIN send = Ranks /\ DOMAIN receive = Ranks
        /\ \A r \in Ranks : DOMAIN send[r] = Transverse(split) /\ DOMAIN receive[r] = Transverse(split)
    BY DEF Init
  <2> QED BY <1>1, <1>6, <1>7, <1>8, <2>1, <2>2 DEF Typed, Ranks
<1>10. ASSUME NEW r \in {0, 1}
       PROVE  Coupled(r) /\ InFlight(r)
  <2>1. pc[r] = "idle" /\ half[r] = 0 /\ ~sending[r]
    BY <1>2
  <2>2. Settled(slab[r].F, r, 0)
    BY <1>5, <1>6, <1>7 DEF Settled
  <2> QED BY <2>1, <2>2 DEF Coupled, InFlight
<1> QED BY <1>1, <1>9, <1>10 DEF IInv, Ranks

-----------------------------------------------------------------------------
\* Unchanged grid, unchanged meaning.

\* The grid and the single-process run do not change, so neither does anything
\* said in their terms.
LEMMA TypedNext ==
  ASSUME Typed, split' = split, serial' = serial, DOMAIN slab' = Ranks,
         \A r \in Ranks : IsState(slab'[r], Slab(r)),
         \A r \in Ranks : \A d \in DOMAIN slab'[r].Q :
           slab'[r].Q[d] = serial[half'[r]].Q[<<d[1], Global(Slab(r), d[2])>>],
         DOMAIN send' = Ranks, DOMAIN receive' = Ranks,
         \A r \in Ranks : DOMAIN send'[r] = Transverse(split) /\ DOMAIN receive'[r] = Transverse(split)
  PROVE  Typed'
BY DEF Typed, IsState, IsFields, Slab, Whole, Ranks, Transverse

\* What a slab holds, after a step.
LEMMA CoupledNext ==
  ASSUME split' = split, serial' = serial, NEW r \in {0, 1},
         pc'[r] = "idle" => Settled(slab'[r].F, r, half'[r]),
         pc'[r] = "launched" => Launched(slab'[r].F, r, half'[r]),
         pc'[r] = "computed" => Updated(slab'[r].F, r, half'[r]),
         pc'[r] = "corrected" => Repaired(slab'[r].F, r, half'[r])
  PROVE  Coupled(r)'
<1>1. (pc'[r] = "idle") => Settled(slab[r].F, r, half[r])'
  BY DEF Settled, Shared, Ghost, ReceiveIndex, Slab
<1>2. pc'[r] = "launched" => Launched(slab[r].F, r, half[r])'
  BY DEF Launched, Shared, Ghost, ReceiveIndex, Slab, Wrapped, Whole, Carried
<1>3. pc'[r] = "computed" => Updated(slab[r].F, r, half[r])'
  BY DEF Updated, Shared, Ghost, ReceiveIndex, Slab, Wrapped, Whole, Carried
<1>4. pc'[r] = "corrected" => Repaired(slab[r].F, r, half[r])'
  BY DEF Repaired, Shared, Ghost, ReceiveIndex, Slab, Wrapped, Driven, Whole, Carried
<1> QED BY <1>1, <1>2, <1>3, <1>4 DEF Coupled

\* What is in flight, after a step.
LEMMA InFlightNext ==
  ASSUME split' = split, serial' = serial, NEW r \in {0, 1},
         \A c \in HaloComponents(Carried(half'[r])) : \A v \in Plane(split, c) :
           /\ sending'[r] => send'[r][c][v] = Image(half'[r], Peer(r), c, v)
           /\ pc'[r] \in {"launched", "computed"} /\ ~awaiting'[r]
                => receive'[r][c][v] = Image(half'[r], r, c, v)
  PROVE  InFlight(r)'
BY DEF InFlight, Image, HaloComponents, Carried, Plane, Wrapped, Whole, Slab,
   ReceiveIndex, Peer

-----------------------------------------------------------------------------
\* One action at a time.

\* What IInv says of the parts an action reads.
LEMMA Known ==
  ASSUME IInv, NEW r \in {0, 1}
  PROVE  /\ split \in Partitions /\ MagneticBelowCut(split)
         /\ half[r] \in 0..(2 * Steps) /\ half[r] \in Nat
         /\ IsState(serial[half[r]], Whole)
         /\ half[r] < 2 * Steps =>
              serial[half[r] + 1] = HalfStep(serial[half[r]], half[r], Whole)
         /\ IsState(slab[r], Slab(r))
         /\ \A d \in DOMAIN slab[r].Q :
              slab[r].Q[d] = serial[half[r]].Q[<<d[1], Global(Slab(r), d[2])>>]
         /\ Coupled(r) /\ InFlight(r)
         /\ Peer(r) \in {0, 1} /\ Peer(r) # r /\ Peer(Peer(r)) = r
         /\ \A q \in {0, 1} : q # r => q = Peer(r)
         /\ DOMAIN slab = {0, 1} /\ DOMAIN send = {0, 1} /\ DOMAIN receive = {0, 1}
         /\ DOMAIN send[r] = Transverse(split) /\ DOMAIN receive[r] = Transverse(split)
         /\ DOMAIN half = {0, 1} /\ DOMAIN pc = {0, 1} /\ DOMAIN sending = {0, 1}
         /\ DOMAIN awaiting = {0, 1}
<1>1. half \in [{0, 1} -> 0..(2 * Steps)] /\ 2 * Steps \in Nat
  BY StepsAssumption DEF IInv, HaloIInv, TypeOK, Ranks
<1>2. DOMAIN pc = {0, 1} /\ DOMAIN sending = {0, 1} /\ DOMAIN awaiting = {0, 1}
  BY DEF IInv, HaloIInv, TypeOK, Ranks
<1>3. /\ Peer(r) \in {0, 1} /\ Peer(r) # r /\ Peer(Peer(r)) = r
      /\ \A q \in {0, 1} : q # r => q = Peer(r)
  BY DEF Peer
<1>4. /\ half[r] \in 0..(2 * Steps) /\ half[r] \in Nat
      /\ (half[r] < 2 * Steps => half[r] \in 0..(2 * Steps - 1))
  BY <1>1
<1> QED BY <1>1, <1>2, <1>3, <1>4 DEF IInv, Typed, Ranks

\* The components of a batch are those with a persistent buffer.
LEMMA HaloTransverse ==
  ASSUME NEW h \in Nat, NEW c \in HaloComponents(Carried(h))
  PROVE  /\ c \in Component /\ c \in Transverse(split) /\ c[1] = Carried(h)
         /\ c = <<Carried(h), c[2]>>
BY FamilyFacts DEF HaloComponents, Transverse, Component

\* An action of one rank: what it leaves to show.
LEMMA RankStep ==
  ASSUME IInv, HaloIInv', NEW r \in {0, 1}, split' = split, serial' = serial,
         DOMAIN slab' = {0, 1}, DOMAIN send' = {0, 1}, DOMAIN receive' = {0, 1},
         \A q \in {0, 1} : DOMAIN send'[q] = DOMAIN send[q] /\ DOMAIN receive'[q] = DOMAIN receive[q],
         \A q \in {0, 1} : q # r => slab'[q] = slab[q] /\ half'[q] = half[q] /\ pc'[q] = pc[q],
         IsState(slab'[r], Slab(r)),
         \A d \in DOMAIN slab'[r].Q :
           slab'[r].Q[d] = serial[half'[r]].Q[<<d[1], Global(Slab(r), d[2])>>],
         Coupled(r)', \A q \in {0, 1} : InFlight(q)'
  PROVE  IInv'
<1>1. ASSUME NEW q \in {0, 1}
      PROVE  /\ IsState(slab'[q], Slab(q))
             /\ \A d \in DOMAIN slab'[q].Q :
                  slab'[q].Q[d] = serial[half'[q]].Q[<<d[1], Global(Slab(q), d[2])>>]
             /\ Coupled(q)'
             /\ DOMAIN send'[q] = Transverse(split)
             /\ DOMAIN receive'[q] = Transverse(split)
  <2>1. CASE q = r
    BY <2>1, Known
  <2>2. CASE q # r
    <3>1. /\ IsState(slab[q], Slab(q)) /\ slab'[q] = slab[q] /\ half'[q] = half[q]
          /\ pc'[q] = pc[q]
          /\ \A d \in DOMAIN slab[q].Q :
               slab[q].Q[d] = serial[half[q]].Q[<<d[1], Global(Slab(q), d[2])>>]
          /\ DOMAIN send'[q] = Transverse(split)
          /\ DOMAIN receive'[q] = Transverse(split)
      BY <2>2, Known
    <3>2. /\ pc[q] = "idle" => Settled(slab[q].F, q, half[q])
          /\ pc[q] = "launched" => Launched(slab[q].F, q, half[q])
          /\ pc[q] = "computed" => Updated(slab[q].F, q, half[q])
          /\ pc[q] = "corrected" => Repaired(slab[q].F, q, half[q])
      BY Known DEF Coupled
    <3>3. /\ pc'[q] = "idle" => Settled(slab'[q].F, q, half'[q])
          /\ pc'[q] = "launched" => Launched(slab'[q].F, q, half'[q])
          /\ pc'[q] = "computed" => Updated(slab'[q].F, q, half'[q])
          /\ pc'[q] = "corrected" => Repaired(slab'[q].F, q, half'[q])
      BY <3>1, <3>2
    <3>4. Coupled(q)'
      BY <3>3, CoupledNext
    <3> QED BY <3>1, <3>4
  <2> QED BY <2>1, <2>2
<1>2. Typed'
  BY <1>1, TypedNext DEF IInv, Ranks
<1>3. MagneticBelowCut(split)'
  BY Known DEF MagneticBelowCut
<1> QED BY <1>1, <1>2, <1>3 DEF IInv, Ranks

\* A rank whose batch does not change keeps it in flight.
LEMMA InFlightKept ==
  ASSUME split' = split, serial' = serial, NEW q \in {0, 1}, InFlight(q),
         half'[q] = half[q],
         sending'[q] => sending[q] /\ send'[q] = send[q],
         pc'[q] \in {"launched", "computed"} /\ ~awaiting'[q]
           => pc[q] \in {"launched", "computed"} /\ ~awaiting[q] /\ receive'[q] = receive[q]
  PROVE  InFlight(q)'
<1>1. ASSUME NEW c \in HaloComponents(Carried(half'[q])), NEW v \in Plane(split, c)
      PROVE  /\ sending'[q] => send'[q][c][v] = Image(half'[q], Peer(q), c, v)
             /\ pc'[q] \in {"launched", "computed"} /\ ~awaiting'[q]
                  => receive'[q][c][v] = Image(half'[q], q, c, v)
  BY <1>1 DEF InFlight
<1> QED BY <1>1, InFlightNext

\* begin() preserves the invariant.
LEMMA BeginKeeps ==
  ASSUME IInv, HaloIInv', NEW r \in {0, 1}, Begin(r)
  PROVE  IInv'
<1> DEFINE h == half[r]
           T == Synced(slab[r], h, Slab(r), split.axis)
<1>1. /\ pc[r] = "idle" /\ pc' = [pc EXCEPT ![r] = "launched"] /\ half' = half
      /\ sending' = [sending EXCEPT ![r] = TRUE]
      /\ awaiting' = [awaiting EXCEPT ![r] = TRUE]
  BY DEF Begin, HaloBegin
<1>2. /\ slab' = [slab EXCEPT ![r] = T]
      /\ send' = [send EXCEPT ![r] = [c \in DOMAIN @ |->
                    IF c[1] = Carried(h)
                    THEN [k \in HaloComponents(Carried(h)) |->
                            [v \in Plane(split, k) |->
                               (WrapFactor(r, Carried(h))
                                 * T.F[k][At(v, split.axis, SendIndex(r, Carried(h)))]) % P]][c]
                    ELSE @[c]]]
      /\ split' = split /\ serial' = serial /\ receive' = receive
  BY DEF Begin
<1> HIDE DEF T
<1>3. /\ IsState(T, Slab(r)) /\ T.Q = slab[r].Q
      /\ Launched(T.F, r, h)
      /\ \A c \in HaloComponents(Carried(h)) : \A v \in Plane(split, c) :
           (WrapFactor(r, Carried(h)) * T.F[c][At(v, split.axis, SendIndex(r, Carried(h)))]) % P
             = Image(h, Peer(r), c, v)
  <2>1. Settled(slab[r].F, r, h)
    BY <1>1, Known DEF Coupled
  <2> QED BY <2>1, Known, BeginStep DEF T
<1>4. Coupled(r)'
  BY <1>1, <1>2, <1>3, Known, CoupledNext
<1>5. InFlight(r)'
  <2>1. ASSUME NEW c \in HaloComponents(Carried(h)), NEW v \in Plane(split, c)
        PROVE  send'[r][c][v] = Image(h, Peer(r), c, v)
    <3>1. c[1] = Carried(h) /\ c \in DOMAIN send[r]
      BY Known, HaloTransverse
    <3> QED BY <1>2, <1>3, <2>1, <3>1, Known
  <2>2. awaiting'[r] /\ half'[r] = h
    BY <1>1, Known
  <2> HIDE DEF h
  <2> QED BY <1>2, <2>1, <2>2, InFlightNext
<1>6. ASSUME NEW q \in {0, 1}, q # r
      PROVE  InFlight(q)'
  BY <1>1, <1>2, <1>6, Known, InFlightKept
<1>7. \A q \in {0, 1} : DOMAIN send'[q] = DOMAIN send[q]
  BY <1>2, Known
<1>8. /\ slab'[r] = T /\ DOMAIN slab' = {0, 1} /\ DOMAIN send' = {0, 1}
      /\ DOMAIN receive' = {0, 1}
  BY <1>2, Known
<1> QED BY <1>1, <1>2, <1>3, <1>4, <1>5, <1>6, <1>7, <1>8, Known, RankStep

\* So does the dense update behind it.
LEMMA ComputeKeeps ==
  ASSUME IInv, HaloIInv', NEW r \in {0, 1}, Compute(r)
  PROVE  IInv'
<1> DEFINE h == half[r]
           T == Densed(slab[r], h, Slab(r))
<1>1. /\ pc[r] = "launched" /\ pc' = [pc EXCEPT ![r] = "computed"] /\ half' = half
      /\ sending' = sending /\ awaiting' = awaiting
  BY DEF Compute, HaloCompute
<1>2. /\ slab' = [slab EXCEPT ![r] = T]
      /\ split' = split /\ serial' = serial /\ send' = send /\ receive' = receive
  BY DEF Compute
<1> HIDE DEF T
<1>3. IsState(T, Slab(r)) /\ T.Q = slab[r].Q /\ Updated(T.F, r, h)
  <2>1. Launched(slab[r].F, r, h)
    BY <1>1, Known DEF Coupled
  <2> QED BY <2>1, Known, ComputeStep DEF T
<1>4. Coupled(r)'
  BY <1>1, <1>2, <1>3, Known, CoupledNext
<1>5. ASSUME NEW q \in {0, 1}
      PROVE  InFlight(q)'
  BY <1>1, <1>2, Known, InFlightKept
<1> QED BY <1>1, <1>2, <1>3, <1>4, <1>5, Known, RankStep

\* So does a transfer: by HaloMatch it carries the plane of the same half step.
LEMMA DeliverKeeps ==
  ASSUME IInv, HaloIInv', NEW r \in {0, 1}, Deliver(r)
  PROVE  IInv'
<1> DEFINE h == half[r]
<1>1. /\ ~raised[r] /\ ~raised[Peer(r)] /\ awaiting[r] /\ sending[Peer(r)]
      /\ awaiting' = [awaiting EXCEPT ![r] = FALSE]
      /\ sending' = [sending EXCEPT ![Peer(r)] = FALSE]
      /\ half' = half /\ pc' = pc
  BY DEF Deliver, HaloDeliver, Peer
<1>2. /\ receive' = [receive EXCEPT ![r] = [c \in DOMAIN @ |->
                       IF c[1] = Carried(h) THEN send[Peer(r)][<<Carried(half[Peer(r)]), c[2]>>] ELSE @[c]]]
      /\ split' = split /\ serial' = serial /\ slab' = slab /\ send' = send
  BY DEF Deliver
<1>3. half[Peer(r)] = h
  <2>1. HaloIInv
    BY DEF IInv
  <2> QED BY <1>1, <2>1 DEF HaloIInv, TypeOK, SameHalf, Ahead,
             Quiet,
                            Ranks, Peer
<1>4. ASSUME NEW c \in HaloComponents(Carried(h)), NEW v \in Plane(split, c)
      PROVE  receive'[r][c][v] = Image(h, r, c, v)
  <2>1. c[1] = Carried(h) /\ c \in DOMAIN receive[r] /\ c = <<Carried(h), c[2]>>
    BY Known, HaloTransverse
  <2>2. receive'[r][c] = send[Peer(r)][c]
    BY <1>2, <1>3, <2>1, Known
  <2>3. send[Peer(r)][c][v] = Image(h, Peer(Peer(r)), c, v)
    BY <1>1, <1>3, Known DEF InFlight
  <2> QED BY <2>2, <2>3, Known
<1>5. Coupled(r)'
  BY <1>1, <1>2, Known, CoupledNext DEF Coupled
<1>6. /\ ~sending'[Peer(r)] /\ sending'[r] = sending[r]
      /\ awaiting'[Peer(r)] = awaiting[Peer(r)]
  BY <1>1, Known
<1>7. InFlight(r)'
  <2>1. sending'[r] => \A c \in HaloComponents(Carried(h)) : \A v \in Plane(split, c) :
                         send'[r][c][v] = Image(h, Peer(r), c, v)
    <3>1. InFlight(r) /\ send' = send
      BY <1>2, Known
    <3> QED BY <1>6, <3>1 DEF InFlight
  <2>2. half'[r] = h
    BY <1>1
  <2>3. split' = split /\ serial' = serial
    BY <1>2
  <2>4. \A c \in HaloComponents(Carried(half'[r])) : \A v \in Plane(split, c) :
          /\ sending'[r] => send'[r][c][v] = Image(half'[r], Peer(r), c, v)
          /\ receive'[r][c][v] = Image(half'[r], r, c, v)
    BY <1>4, <2>1, <2>2
  <2> HIDE DEF h
  <2> QED BY <2>3, <2>4, InFlightNext
<1>8. InFlight(Peer(r))'
  <2>1. receive'[Peer(r)] = receive[Peer(r)]
    BY <1>2, Known
  <2> QED BY <1>1, <1>2, <1>6, <2>1, Known, InFlightKept
<1>9. \A q \in {0, 1} : DOMAIN receive'[q] = DOMAIN receive[q]
  BY <1>2, Known
<1>10. DOMAIN receive' = {0, 1} /\ DOMAIN send' = {0, 1} /\ DOMAIN slab' = {0, 1}
  BY <1>2, Known
<1> QED BY <1>1, <1>2, <1>5, <1>7, <1>8, <1>9, <1>10, Known, RankStep

\* So does finish().
LEMMA FinishKeeps ==
  ASSUME IInv, HaloIInv', NEW r \in {0, 1}, Finish(r)
  PROVE  IInv'
<1> DEFINE h == half[r]
           F == FillGhosts(BoundaryCorrection(r, Family(h)), r, Carried(h))
           T == Fields(slab[r], F)
<1>1. /\ pc[r] = "computed" /\ ~awaiting[r] /\ pc' = [pc EXCEPT ![r] = "corrected"]
      /\ half' = half
      /\ sending' = sending /\ awaiting' = awaiting
  BY DEF Finish, HaloFinish
<1>2. /\ slab' = [slab EXCEPT ![r] = T]
      /\ split' = split /\ serial' = serial /\ send' = send /\ receive' = receive
  BY DEF Finish
<1>3. IsFields(F, Slab(r).n) /\ Repaired(F, r, h)
  <2>1. Updated(slab[r].F, r, h)
    BY <1>1, Known DEF Coupled
  <2>2. \A c \in HaloComponents(Carried(h)) : \A v \in Plane(split, c) :
          receive[r][c][v] = Image(h, r, c, v)
    BY <1>1, Known DEF InFlight
  <2> QED BY <2>1, <2>2, Known, FinishStep
<1> HIDE DEF F
<1>4. IsState(T, Slab(r)) /\ T.F = F /\ T.Q = slab[r].Q
  BY <1>3, Known, FieldsType
<1> HIDE DEF T
<1>5. Coupled(r)'
  BY <1>1, <1>2, <1>3, <1>4, Known, CoupledNext
<1>6. ASSUME NEW q \in {0, 1}
      PROVE  InFlight(q)'
  BY <1>1, <1>2, Known, InFlightKept
<1> QED BY <1>1, <1>2, <1>4, <1>5, <1>6, Known, RankStep

\* So do the materials and sources that complete the half step.
LEMMA PostKeeps ==
  ASSUME IInv, HaloIInv', NEW r \in {0, 1}, Post(r)
  PROVE  IInv'
<1> DEFINE h == half[r]
           T == Completed(slab[r], h, Slab(r))
<1>1. /\ pc[r] = "corrected" /\ h < 2 * Steps
      /\ pc' = [pc EXCEPT ![r] = "idle"] /\ half' = [half EXCEPT ![r] = @ + 1]
      /\ sending' = sending /\ awaiting' = awaiting
  BY DEF Post, HaloPost, Running
<1>2. /\ slab' = [slab EXCEPT ![r] = T]
      /\ split' = split /\ serial' = serial /\ send' = send /\ receive' = receive
  BY DEF Post
<1> HIDE DEF T
<1>3. /\ IsState(T, Slab(r)) /\ Settled(T.F, r, h + 1)
      /\ \A d \in DOMAIN T.Q : T.Q[d] = serial[h + 1].Q[<<d[1], Global(Slab(r), d[2])>>]
  <2>1. Repaired(slab[r].F, r, h)
    BY <1>1, Known DEF Coupled
  <2> QED BY <1>1, <2>1, Known, PostStep DEF T
<1>4. /\ half'[r] = h + 1 /\ pc'[r] = "idle" /\ slab'[r] = T
      /\ \A q \in {0, 1} : q # r => half'[q] = half[q] /\ pc'[q] = pc[q] /\ slab'[q] = slab[q]
  BY <1>1, <1>2, Known
<1>5. Coupled(r)'
  BY <1>2, <1>3, <1>4, CoupledNext
<1>6. ~sending[r]
  BY <1>1 DEF IInv, HaloIInv, Quiet, Ranks
<1>7. ASSUME NEW q \in {0, 1}
      PROVE  InFlight(q)'
  <2>1. CASE q = r
    BY <1>1, <1>2, <1>4, <1>6, <2>1, InFlightNext
  <2>2. CASE q # r
    BY <1>1, <1>2, <1>4, <2>2, Known, InFlightKept
  <2> QED BY <2>1, <2>2
<1>8. DOMAIN slab' = {0, 1} /\ DOMAIN send' = {0, 1} /\ DOMAIN receive' = {0, 1}
  BY <1>2, Known
<1> QED BY <1>2, <1>3, <1>4, <1>5, <1>7, <1>8, RankStep

-----------------------------------------------------------------------------
\* The invariant and what follows from it.

\* Every step preserves the invariant.
LEMMA NextIInv == IInv /\ [Next]_vars => IInv'
<1> SUFFICES ASSUME IInv, [Next]_vars
             PROVE  IInv'
  OBVIOUS
<1>1. HaloIInv'
  BY ProtocolStep DEF IInv
<1>2. ASSUME NEW r \in {0, 1},
             Begin(r) \/ Compute(r) \/ Deliver(r) \/ Finish(r) \/ Post(r)
      PROVE  IInv'
  BY <1>1, <1>2, BeginKeeps, ComputeKeeps, DeliverKeeps, FinishKeeps, PostKeeps
<1>3. CASE UNCHANGED vars
  <2>1. /\ split' = split /\ serial' = serial /\ slab' = slab /\ send' = send
        /\ receive' = receive
        /\ half' = half /\ pc' = pc /\ sending' = sending /\ awaiting' = awaiting
    BY <1>3 DEF vars, data, control
  <2>2. 0 \in {0, 1}
    OBVIOUS
  <2>3. Coupled(0)'
    BY <2>1, <2>2, Known, CoupledNext DEF Coupled
  <2>4. ASSUME NEW q \in {0, 1}
        PROVE  InFlight(q)'
    BY <2>1, Known, InFlightKept
  <2> QED BY <1>1, <2>1, <2>2, <2>3, <2>4, Known, RankStep
<1>4. CASE Terminated
  <2>1. UNCHANGED vars
    BY <1>4 DEF Terminated, HaloTerminated, control, vars, control
  <2> QED BY <1>3, <2>1
<1> QED BY <1>2, <1>3, <1>4 DEF Next, Ranks

\* The invariant holds throughout every run whose magnetic sources lie below the cut.
THEOREM Inductive == Spec /\ MagneticBelowCut(split) => []IInv
BY InitIInv, NextIInv, PTL DEF Spec

\* A cell of the grid within a slab, off the plane its peer updates, holds the
\* single-process solver's value between half steps.
LEMMA HeldBy ==
  ASSUME IInv, NEW r \in {0, 1}, pc[r] = "idle", NEW c \in Component, NEW g,
         Local(Slab(r), g) \in Cells(Slab(r).n, c), Global(Slab(r), Local(Slab(r), g)) = g,
         ~Shared(r, c, Local(Slab(r), g))
  PROVE  slab[r].F[c][Local(Slab(r), g)] = serial[half[r]].F[c][g]
BY Known DEF Coupled, Settled

\* Between half steps every cell a rank updates, and every polarisation, is the
\* single-process solver's: halo, boundary correction and overlap are invisible.
THEOREM OwnedMatchesSerialHolds ==
  Spec /\ MagneticBelowCut(split) => []OwnedMatchesSerial
<1>1. IInv => OwnedMatchesSerial
  <2> SUFFICES ASSUME IInv, NEW r \in Ranks, pc[r] = "idle"
               PROVE  /\ \A c \in Component : \A v \in Cells(Slab(r).n, c) :
                           Active(Slab(r), c, v) =>
                             slab[r].F[c][v] = serial[half[r]].F[c][Global(Slab(r), v)]
                      /\ \A d \in DOMAIN slab[r].Q :
                           slab[r].Q[d] = serial[half[r]].Q[<<d[1], Global(Slab(r), d[2])>>]
    BY DEF OwnedMatchesSerial
  <2>1. r \in {0, 1}
    BY DEF Ranks
  <2>2. Settled(slab[r].F, r, half[r])
    BY <2>1, Known DEF Coupled
  <2> QED BY <2>1, <2>2, Known, ActiveSettled DEF Settled
<1> QED BY <1>1, Inductive, PTL

\* The cell a probe is moved to lies on its rank, off the plane the peer updates.
LEMMA ProbeOnRank ==
  ASSUME split \in Partitions, NEW c \in Component, NEW g \in Cells(split.n, c)
  PROVE  LET r == ProbeOwner(c, g)
             v == Local(Slab(r), ProbeCell(c, g))
         IN  r \in {0, 1} /\ v \in Cells(Slab(r).n, c) /\ ~Shared(r, c, v)
             /\ Global(Slab(r), v) = ProbeCell(c, g)
<1> DEFINE x == split.axis
           p == ProbeCell(c, g)
           r == ProbeOwner(c, g)
           v == Local(Slab(r), p)
<1>1. /\ split.n \in Sizes /\ x \in Axes /\ split.cut \in Nat /\ 2 <= split.cut
      /\ split.cut <= split.n[x] - 2 /\ c[1] \in {"E", "H"} /\ c[2] \in Axes
      /\ r \in {0, 1}
      /\ split.n[x] \in Nat
  BY SlabFacts, ComponentFacts DEF ProbeOwner, Sizes
<1>2. g \in Vectors /\ \A a \in Axes : 0 <= g[a] /\ g[a] < Limit(split.n, c, a) /\ g[a] \in Int
  BY <1>1, CellFacts DEF Vectors
<1>3. /\ p \in Vectors /\ \A a \in Axes : a # x => p[a] = g[a]
      /\ p[x] \in Int /\ 0 <= p[x] /\ p[x] < Limit(split.n, c, x)
      /\ c[2] # x /\ c[1] = "E" => p[x] < split.n[x]
      /\ c[2] # x /\ c[1] = "H" => 1 <= p[x]
  <2>1. CASE p = g /\ ~(c[2] # x /\ c[1] = "E" /\ g[x] = split.n[x]) /\ ~(c[2] # x /\ c[1] = "H" /\ g[x] = 0)
    <3> HIDE DEF p
    <3>1. c[2] # x => Limit(split.n, c, x) = split.n[x] + 1
      BY DEF Limit
    <3> QED BY <1>1, <1>2, <2>1, <3>1
  <2>2. CASE c[2] # x /\ c[1] = "E" /\ p = At(g, x, 0)
    <3>1. p \in Vectors /\ p[x] = 0 /\ \A a \in Axes : a # x => p[a] = g[a]
      <4>1. g \in Vectors /\ x \in Axes /\ 0 \in Int
        BY <1>1, <1>2
      <4>2. /\ At(g, x, 0) \in Vectors /\ At(g, x, 0)[x] = 0
            /\ \A a \in Axes : a # x => At(g, x, 0)[a] = g[a]
        BY <4>1, AtFacts
      <4> HIDE DEF p
      <4> QED BY <2>2, <4>2
    <3> HIDE DEF p
    <3> QED BY <1>1, <1>2, <2>2, <3>1 DEF Limit
  <2>3. CASE c[2] # x /\ c[1] = "H" /\ p = At(g, x, split.n[x])
    <3>1. p \in Vectors /\ p[x] = split.n[x] /\ \A a \in Axes : a # x => p[a] = g[a]
      <4>1. g \in Vectors /\ x \in Axes /\ split.n[x] \in Int
        BY <1>1, <1>2
      <4>2. /\ At(g, x, split.n[x]) \in Vectors /\ At(g, x, split.n[x])[x] = split.n[x]
            /\ \A a \in Axes : a # x => At(g, x, split.n[x])[a] = g[a]
        BY <4>1, AtFacts
      <4> HIDE DEF p
      <4> QED BY <2>3, <4>2
    <3> HIDE DEF p
    <3> QED BY <1>1, <1>2, <2>3, <3>1 DEF Limit
  <2> QED BY <1>1, <2>1, <2>2, <2>3 DEF ProbeCell
<1>4. /\ c[1] = "E" \/ c[2] = x => (r = 0 <=> p[x] < split.cut)
      /\ ~(c[1] = "E" \/ c[2] = x) => (r = 0 <=> p[x] <= split.cut)
  BY DEF ProbeOwner
<1> HIDE DEF p, r
<1>5. /\ v \in Vectors /\ Global(Slab(r), v) = p
      /\ \A a \in Axes : v[a] = p[a] - Slab(r).off[a]
  BY <1>1, <1>3, SlabFacts, GlobalFacts
<1> HIDE DEF v
<1>6. /\ \A a \in Axes : Slab(r).n[a] = IF a # x THEN split.n[a]
                                        ELSE IF r = 0 THEN split.cut ELSE split.n[a] - split.cut
      /\ \A a \in Axes : Slab(r).off[a] = IF a = x /\ r = 1 THEN split.cut ELSE 0
      /\ Slab(r).n \in Sizes
  BY <1>1, SlabFacts
<1>7. \A a \in Axes : 0 <= v[a] /\ v[a] < Limit(Slab(r).n, c, a)
  <2>1. ASSUME NEW a \in Axes, a # x
        PROVE  0 <= v[a] /\ v[a] < Limit(Slab(r).n, c, a)
    <3>1. v[a] = g[a] /\ Slab(r).n[a] = split.n[a]
      BY <1>2, <1>3, <1>5, <1>6, <2>1
    <3> QED BY <1>2, <2>1, <3>1 DEF Limit
  <2>2. 0 <= v[x] /\ v[x] < Limit(Slab(r).n, c, x)
    <3>1. CASE r = 0
      <4>1. v[x] = p[x] /\ Slab(r).n[x] = split.cut
        BY <1>1, <1>3, <1>5, <1>6, <3>1
      <4> QED BY <1>1, <1>3, <1>4, <3>1, <4>1 DEF Limit
    <3>2. CASE r = 1
      <4>1. v[x] = p[x] - split.cut /\ Slab(r).n[x] = split.n[x] - split.cut
        BY <1>1, <1>3, <1>5, <1>6, <3>2
      <4> QED BY <1>1, <1>3, <1>4, <3>2, <4>1 DEF Limit
    <3> QED BY <1>1, <3>1, <3>2
  <2> QED BY <2>1, <2>2
<1>8. v \in Cells(Slab(r).n, c)
  BY <1>5, <1>6, <1>7, CellFacts
<1>9. ~Shared(r, c, v)
  <2>1. CASE r = 0
    <3>1. v[x] = p[x] /\ Slab(r).n[x] = split.cut
      BY <1>1, <1>3, <1>5, <1>6, <2>1
    <3> QED BY <1>1, <1>3, <1>4, <2>1, <3>1 DEF Shared, Ghost, ReceiveIndex
  <2>2. CASE r = 1
    <3>1. v[x] = p[x] - split.cut
      BY <1>1, <1>3, <1>5, <1>6, <2>2
    <3> QED BY <1>1, <1>3, <1>4, <2>2, <3>1 DEF Shared, Ghost, ReceiveIndex
  <2> QED BY <1>1, <2>1, <2>2
<1> QED BY <1>1, <1>5, <1>8, <1>9 DEF p, r, v

\* A probe is recorded by a rank that holds its cell, and records the
\* single-process value.
THEOREM ProbesMatchSerialHolds ==
  Spec /\ MagneticBelowCut(split) => []ProbesMatchSerial
<1>1. IInv => ProbesMatchSerial
  <2> SUFFICES ASSUME IInv, NEW c \in Component, NEW g \in Cells(split.n, c)
               PROVE  LET r == ProbeOwner(c, g)
                          v == Local(Slab(r), ProbeCell(c, g))
                      IN  /\ v \in Cells(Slab(r).n, c)
                          /\ pc[r] = "idle" =>
                               slab[r].F[c][v] = serial[half[r]].F[c][ProbeCell(c, g)]
    BY DEF ProbesMatchSerial
  <2>1. split \in Partitions
    BY DEF IInv, Typed
  <2> QED BY <2>1, ProbeOnRank, HeldBy
<1> QED BY <1>1, Inductive, PTL

\* Of every cell of the grid some slab keeps a gathered copy.
LEMMA GatheredSomewhere ==
  ASSUME split \in Partitions, NEW c \in Component, NEW g \in Cells(split.n, c)
  PROVE  \E r \in {0, 1} : \E v \in Cells(Slab(r).n, c) : Gathered(r, c, v) /\ Global(Slab(r), v) = g
<1> DEFINE x == split.axis
           r == IF g[x] < split.cut \/ (c[1] = "H" /\ c[2] # x /\ g[x] = split.cut) THEN 0 ELSE 1
           v == Local(Slab(r), g)
<1>1. /\ split.n \in Sizes /\ x \in Axes /\ split.cut \in Nat /\ 2 <= split.cut
      /\ split.cut <= split.n[x] - 2 /\ c[1] \in {"E", "H"} /\ c[2] \in Axes
      /\ r \in {0, 1}
      /\ split.n[x] \in Nat
  BY SlabFacts, ComponentFacts DEF Sizes
<1>2. g \in Vectors /\ \A a \in Axes : 0 <= g[a] /\ g[a] < Limit(split.n, c, a) /\ g[a] \in Int
  BY <1>1, CellFacts DEF Vectors
<1>3. r = 0 <=> g[x] < split.cut \/ (c[1] = "H" /\ c[2] # x /\ g[x] = split.cut)
  OBVIOUS
<1> HIDE DEF r
<1>4. /\ v \in Vectors /\ Global(Slab(r), v) = g
      /\ \A a \in Axes : v[a] = g[a] - Slab(r).off[a]
  BY <1>1, <1>2, SlabFacts, GlobalFacts
<1> HIDE DEF v
<1>5. /\ \A a \in Axes : Slab(r).n[a] = IF a # x THEN split.n[a]
                                        ELSE IF r = 0 THEN split.cut ELSE split.n[a] - split.cut
      /\ \A a \in Axes : Slab(r).off[a] = IF a = x /\ r = 1 THEN split.cut ELSE 0
      /\ Slab(r).n \in Sizes
  BY <1>1, SlabFacts
<1>6. ASSUME NEW a \in Axes, a # x
      PROVE  0 <= v[a] /\ v[a] < Limit(Slab(r).n, c, a)
  <2>1. v[a] = g[a] /\ Slab(r).n[a] = split.n[a]
    BY <1>2, <1>4, <1>5, <1>6
  <2> QED BY <1>2, <1>6, <2>1 DEF Limit
<1>7. 0 <= v[x] /\ v[x] < Limit(Slab(r).n, c, x) /\ Gathered(r, c, v)
  <2>1. CASE r = 0
    <3>1. v[x] = g[x] /\ Slab(r).n[x] = split.cut
      BY <1>1, <1>2, <1>4, <1>5, <2>1
    <3> QED BY <1>1, <1>2, <1>3, <2>1, <3>1 DEF Limit, Gathered
  <2>2. CASE r = 1
    <3>1. v[x] = g[x] - split.cut /\ Slab(r).n[x] = split.n[x] - split.cut
      BY <1>1, <1>2, <1>4, <1>5, <2>2
    <3> QED BY <1>1, <1>2, <1>3, <2>2, <3>1 DEF Limit, Gathered
  <2> QED BY <1>1, <2>1, <2>2
<1>8. v \in Cells(Slab(r).n, c)
  BY <1>1, <1>4, <1>5, <1>6, <1>7, CellFacts
<1> QED BY <1>1, <1>4, <1>7, <1>8

\* And a gathered copy is never on the plane the peer updates.
LEMMA GatheredSettled ==
  ASSUME split \in Partitions, NEW r \in {0, 1}, NEW c \in Component,
         NEW v \in Cells(Slab(r).n, c), Gathered(r, c, v)
  PROVE  ~Shared(r, c, v)
<1>1. /\ c[1] \in {"E", "H"} /\ split.axis \in Axes /\ v[split.axis] \in Int
      /\ Slab(r).n[split.axis] \in Int
  BY SlabFacts, CellFacts, ComponentFacts DEF Vectors, Sizes
<1>2. CASE r = 0
  BY <1>1, <1>2 DEF Gathered, Shared, Ghost, ReceiveIndex
<1>3. CASE r = 1
  BY <1>1, <1>3 DEF Gathered, Shared, Ghost, ReceiveIndex
<1> QED BY <1>2, <1>3

\* A joined snapshot is array for array that of the single-process solver.
THEOREM SnapshotMatchesSerialHolds ==
  Spec /\ MagneticBelowCut(split) => []SnapshotMatchesSerial
<1>1. IInv => SnapshotMatchesSerial
  <2> SUFFICES ASSUME IInv, half[0] = half[1], \A r \in Ranks : pc[r] = "idle", NEW c \in Component
               PROVE  Snapshot(c) = serial[half[0]].F[c]
    BY DEF SnapshotMatchesSerial
  <2>1. /\ split \in Partitions
        /\ serial[half[0]].F[c] \in [Cells(split.n, c) -> 0..(P - 1)]
    BY Known, WholeGridFacts DEF IsState, IsFields
  <2>2. ASSUME NEW g \in Cells(split.n, c)
        PROVE  Snapshot(c)[g] = serial[half[0]].F[c][g]
    <3> DEFINE Kept_by(r) == \E v \in Cells(Slab(r).n, c) : Gathered(r, c, v) /\ Global(Slab(r), v) = g
               q == CHOOSE r \in Ranks : Kept_by(r)
    <3>1. \E r \in Ranks : Kept_by(r)
      BY <2>1, GatheredSomewhere DEF Ranks
    <3>2. q \in {0, 1} /\ Kept_by(q)
      BY <3>1 DEF Ranks
    <3>3. Snapshot(c)[g] = slab[q].F[c][Local(Slab(q), g)]
      BY DEF Snapshot
    <3> HIDE DEF q
    <3>4. PICK v \in Cells(Slab(q).n, c) : Gathered(q, c, v) /\ Global(Slab(q), v) = g
      BY <3>2
    <3>5. Local(Slab(q), g) = v
      BY <2>1, <3>2, <3>4, SlabFacts, GlobalInside, GlobalFacts
    <3>6. slab[q].F[c][v] = serial[half[q]].F[c][g]
      BY <2>1, <3>2, <3>4, <3>5, GatheredSettled, HeldBy DEF Ranks
    <3>7. half[q] = half[0]
      BY <3>2
    <3> QED BY <3>3, <3>5, <3>6, <3>7
  <2>3. Snapshot(c) = [g \in Cells(split.n, c) |-> Snapshot(c)[g]]
    BY DEF Snapshot
  <2> QED BY <2>1, <2>2, <2>3
<1> QED BY <1>1, Inductive, PTL
=============================================================================
