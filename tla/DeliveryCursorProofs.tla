------------------------ MODULE DeliveryCursorProofs ------------------------
(* The safety properties of DeliveryCursor, for any channels, accounts and     *)
(* number of posts.                                                            *)
EXTENDS DeliveryCursor, WellFoundedInduction, NaturalsInduction, TLAPS

(* A number belongs to one post, and acked numbers to committed posts.         *)
NumbersInv ==
    /\ \A m, n \in open \union msgs : m.seq = n.seq => m = n
    /\ \A m \in open \union msgs : m.seq <= nextSeq
    /\ \A i \in acks : \E m \in msgs : m.seq = i

(* Every number a low-water mark crossed above its seed is a committed post of *)
(* that channel, and was the agent's own, acked or passed over.                *)
CrossedInv ==
    \A c \in Channels : cursor[c] # Nil =>
       \A i \in Seqs : (seeded[c] < i /\ i <= cursor[c].acked) =>
          \E m \in msgs : m.chan = c /\ m.seq = i /\ (m.author = Self \/ i \in acks \union passed)

(* Every retained number is an acked post of that channel past a gap.          *)
AboveInv ==
    \A c \in Channels : cursor[c] # Nil =>
       \A i \in cursor[c].above :
          /\ i \in acks /\ i > cursor[c].acked + 1
          /\ \E m \in msgs : m.chan = c /\ m.seq = i

RowsInv == NumbersInv /\ CrossedInv /\ AboveInv /\ AckedNotSwept

(* One transaction holds a channel's row lock; what it read under the lock is  *)
(* still so; a transaction about to make a channel mandatory will seed a       *)
(* member that has no cursor.                                                  *)
TargetsInv ==
    /\ \A c \in Parties \union Home : cursor[c] # Nil
    /\ \A c \in Channels \ DMs :
         /\ InSweepSet(c) => cursor[c] # Nil
         /\ ~chan[c].dm
         /\ upd[c] = Nil \/ pol[c] = Nil
         /\ upd[c] # Nil => (upd[c].mandatory <=> chan[c].mandatory)
         /\ (pol[c] # Nil /\ pol[c].mandatory /\ chan[c].member) => (cursor[c] # Nil \/ pol[c].seeds)

CursorInv == TypeOK /\ RowsInv /\ TargetsInv

-----------------------------------------------------------------------------
(* The committed head a seed reads is 0 or the number of a post.               *)
LEMMA HeadType ==
    ASSUME TypeOK, NEW c \in Channels
    PROVE  Head(c) \in Heads
<1> DEFINE S == {0} \union {m.seq : m \in InChannel(c)}
           T == {k \in Nat : \E h \in S : k = MaxSeq - h}
<1>1. S \subseteq Heads /\ 0 \in S
  BY BoundAssumption, SMT DEF TypeOK, InChannel, Messages, Seqs, Heads
<1>2. T \subseteq Nat /\ T # {}
  <2>1. MaxSeq - 0 \in Nat /\ MaxSeq = MaxSeq - 0
    BY BoundAssumption
  <2>2. MaxSeq \in T
    BY <1>1, <2>1
  <2> QED BY <2>2
<1>3. PICK k \in T : \A j \in T : ~(<<j, k>> \in OpToRel(<, Nat))
  <2> HIDE DEF T
  <2> QED BY Zenon, <1>2, WFMin, NatLessThanWellFounded
<1>4. \A j \in T : ~(j < k)
  BY Zenon, <1>2, <1>3 DEF OpToRel
<1>5. PICK h \in S : k = MaxSeq - h
  BY Zenon, <1>3
<1>6. \A s \in S : s <= h
  <2> SUFFICES ASSUME NEW s \in S, ~(s <= h) PROVE FALSE
    OBVIOUS
  <2>1. s \in Heads /\ h \in Heads
    BY <1>1, <1>5
  <2>2. MaxSeq - s \in Nat /\ MaxSeq - s < MaxSeq - h
    BY <2>1, BoundAssumption DEF Heads
  <2>3. MaxSeq - s \in T
    BY <2>2
  <2> HIDE DEF S, T
  <2> QED BY <2>2, <2>3, <1>4, <1>5
<1>7. \A m \in InChannel(c) : m.seq <= h
  BY <1>6
<1>8. MaxSeqOf(c) \in S
  BY <1>5, <1>7, Zenon DEF MaxSeqOf
<1> QED BY <1>1, <1>8 DEF Head

(* The drain stops inside the numbers posted, crosses only what is in the set, *)
(* and stops where the next number is not.                                     *)
LEMMA ContiguousSpec ==
    ASSUME NEW from \in Heads, NEW S \in SUBSET Seqs
    PROVE  LET n == Contiguous(from, S) IN
           /\ n \in Heads /\ n >= from /\ n + 1 \notin S
           /\ \A i \in (from + 1)..n : i \in S
<1> DEFINE T == {n \in Nat : n >= from /\ n + 1 \notin S}
<1>1. T \subseteq Nat /\ MaxSeq \in T
  BY BoundAssumption, SMT DEF Heads, Seqs
<1>2. PICK n \in T : \A m \in T : ~(<<m, n>> \in OpToRel(<, Nat))
  <2> HIDE DEF T
  <2> QED BY Zenon, <1>1, WFMin, NatLessThanWellFounded
<1>3. \A m \in T : ~(m < n)
  BY Zenon, <1>1, <1>2 DEF OpToRel
<1>4. n \in Nat /\ n >= from /\ n + 1 \notin S
  BY Zenon, <1>2
<1>5. (from + 1)..n \subseteq S
  <2> SUFFICES ASSUME NEW i \in (from + 1)..n, i \notin S PROVE FALSE
    OBVIOUS
  <2>1. i - 1 \in Nat /\ i - 1 >= from /\ (i - 1) + 1 = i /\ i - 1 < n
    BY <1>4 DEF Heads
  <2>2. i - 1 \in T
    BY <2>1
  <2> HIDE DEF T
  <2> QED BY <2>1, <2>2, <1>3
<1>6. n \in from..MaxSeq
  <2>1. ~(MaxSeq < n)
    <3> HIDE DEF T
    <3> QED BY <1>1, <1>3
  <2> QED BY <1>4, <2>1, BoundAssumption DEF Heads
<1> DEFINE P(k) == (from + 1)..k \subseteq S /\ k + 1 \notin S
<1>7. Contiguous(from, S) \in from..MaxSeq /\ P(Contiguous(from, S))
  <2>1. P(n)
    BY <1>4, <1>5
  <2>2. Contiguous(from, S) = CHOOSE k \in from..MaxSeq : P(k)
    BY DEF Contiguous
  <2> HIDE DEF P
  <2> QED BY Zenon, <1>6, <2>1, <2>2
<1> QED BY <1>7, BoundAssumption DEF Heads

-----------------------------------------------------------------------------
(* What a membership step may do to the rows: add one at its seed.             *)
SeedsOnly ==
    /\ cursor' \in [Channels -> Rows \union {Nil}] /\ seeded' \in [Channels -> Heads]
    /\ \A d \in Channels : cursor[d] # Nil => cursor'[d] = cursor[d] /\ seeded'[d] = seeded[d]
    /\ \A d \in Channels : (cursor[d] = Nil /\ cursor'[d] # Nil) =>
          cursor'[d].acked = seeded'[d] /\ cursor'[d].above = {}

(* A conditional seed adds at most the one row, and adds it when asked to.     *)
LEMMA SeedIfSpec ==
    ASSUME TypeOK, NEW c \in Channels, NEW head \in Heads, NEW p, SeedIf(p, c, head)
    PROVE  SeedsOnly /\ (p => cursor'[c] # Nil)
<1> DEFINE row == [acked |-> head, above |-> {}]
<1>1. row \in Rows /\ row # Nil
  <2>1. row \in Rows
    BY DEF Rows
  <2> QED BY <2>1, NilAssumption
<1>2. cursor \in [Channels -> Rows \union {Nil}] /\ seeded \in [Channels -> Heads]
  BY DEF TypeOK
<1>3. ASSUME p, cursor[c] = Nil PROVE SeedsOnly /\ cursor'[c] # Nil
  <2>1. cursor' = [cursor EXCEPT ![c] = row] /\ seeded' = [seeded EXCEPT ![c] = head]
    BY <1>3 DEF SeedIf, Seed
  <2>2. row.acked = head /\ row.above = {}
    OBVIOUS
  <2> HIDE DEF row
  <2> QED BY <1>1, <1>2, <1>3, <2>1, <2>2 DEF SeedsOnly
<1>4. ASSUME ~(p /\ cursor[c] = Nil) PROVE SeedsOnly /\ (p => cursor'[c] # Nil)
  <2>1. cursor' = cursor /\ seeded' = seeded
    BY <1>4 DEF SeedIf, Seed
  <2> QED BY <1>2, <1>4, <2>1 DEF SeedsOnly
<1> QED BY <1>3, <1>4

(* A new row crosses nothing above its seed and retains nothing.               *)
LEMMA SeedKeepsRows ==
    ASSUME TypeOK, RowsInv, SeedsOnly, UNCHANGED <<posts, acks, passed>>
    PROVE  RowsInv'
<1>1. NumbersInv'
  BY DEF RowsInv, NumbersInv, posts
<1>2. msgs' = msgs /\ acks' = acks /\ passed' = passed
  BY DEF posts
<1>3. CrossedInv'
  <2> SUFFICES ASSUME NEW c \in Channels, cursor'[c] # Nil,
                      NEW i \in Seqs, seeded'[c] < i, i <= cursor'[c].acked
               PROVE  \E m \in msgs : m.chan = c /\ m.seq = i /\ (m.author = Self \/ i \in acks \union passed)
    BY <1>2 DEF CrossedInv
  <2>1. cursor[c] # Nil
    <3> SUFFICES ASSUME cursor[c] = Nil PROVE FALSE
      OBVIOUS
    <3>1. cursor'[c].acked = seeded'[c] /\ seeded'[c] \in Heads
      BY DEF SeedsOnly
    <3> QED BY <3>1, BoundAssumption DEF Seqs, Heads
  <2> QED BY <2>1 DEF SeedsOnly, RowsInv, CrossedInv
<1>4. AboveInv'
  <2> SUFFICES ASSUME NEW c \in Channels, cursor'[c] # Nil, NEW i \in cursor'[c].above
               PROVE  /\ i \in acks /\ i > cursor'[c].acked + 1
                      /\ \E m \in msgs : m.chan = c /\ m.seq = i
    BY <1>2 DEF AboveInv
  <2>1. cursor[c] # Nil /\ cursor'[c] = cursor[c]
    BY DEF SeedsOnly
  <2> QED BY <2>1 DEF RowsInv, AboveInv
<1>5. AckedNotSwept'
  <2> SUFFICES ASSUME NEW m \in msgs, m.seq \in acks
               PROVE  Excluded(m.chan, m.seq)' /\ cursor'[m.chan] # Nil
    BY <1>2 DEF AckedNotSwept
  <2>1. m.chan \in Channels
    BY DEF TypeOK, Messages
  <2>2. cursor[m.chan] # Nil /\ Excluded(m.chan, m.seq)
    BY DEF RowsInv, AckedNotSwept
  <2> QED BY <2>1, <2>2 DEF SeedsOnly, Excluded
<1> QED BY <1>1, <1>3, <1>4, <1>5 DEF RowsInv

-----------------------------------------------------------------------------
(* Each membership step keeps the types and touches the rows by seeding only.  *)
LEMMA MembershipSeeds ==
    ASSUME TypeOK, NEW c \in Channels, Membership(c)
    PROVE  TypeOK' /\ SeedsOnly /\ UNCHANGED <<posts, acks, passed>>
<1>1. SeedsOnly /\ UNCHANGED <<posts, acks, passed>> /\ owed' = owed
  <2>1. CASE UNCHANGED <<seeded, cursor>> /\ UNCHANGED <<posts, owed, acks, passed>>
    BY <2>1 DEF SeedsOnly, TypeOK
  <2>2. Head(c) \in Heads
    BY HeadType
  <2>3. upd[c] # Nil => upd[c].head \in Heads
    BY Zenon DEF TypeOK, Updates
  <2>4. pol[c] # Nil => pol[c].head \in Heads
    BY DEF TypeOK, Policies
  <2>5. ASSUME NEW u \in MemberUpdates, CommitUpdate(c, u)
        PROVE  SeedsOnly /\ UNCHANGED <<posts, acks, passed>> /\ owed' = owed
    BY <2>5, <2>3, SeedIfSpec DEF CommitUpdate
  <2>6. ASSUME CommitPolicy(c) PROVE  SeedsOnly /\ UNCHANGED <<posts, acks, passed>> /\ owed' = owed
    BY <2>6, <2>4, SeedIfSpec DEF CommitPolicy
  <2>7. ASSUME NEW b \in BOOLEAN, SetCoordinationMembers(c, b)
        PROVE  SeedsOnly /\ UNCHANGED <<posts, acks, passed>> /\ owed' = owed
    BY <2>7, <2>2, SeedIfSpec DEF SetCoordinationMembers
  <2>8. ASSUME ReconcileDM(c) PROVE  SeedsOnly /\ UNCHANGED <<posts, acks, passed>> /\ owed' = owed
    BY <2>8, <2>2, SeedIfSpec DEF ReconcileDM
  <2> QED BY <2>1, <2>5, <2>6, <2>7, <2>8
          DEF Membership, BeginUpdate, AbortUpdate, BeginPolicy, AbortPolicy, ResolveDM
<1>2. chan' \in [Channels -> Flags]
  <2>1. chan[c] \in Flags
    BY DEF TypeOK
  <2>2. ASSUME NEW u \in MemberUpdates, CommitUpdate(c, u) PROVE chan' \in [Channels -> Flags]
    <3>1. Converted(chan[c]) \in Flags
      BY Zenon, <2>1 DEF Converted, Flags
    <3>2. \A f \in Flags : Applied(f, u) \in Flags
      BY Zenon, <2>2 DEF Applied, Flags, MemberUpdates
    <3> QED BY <2>1, <2>2, <3>1, <3>2 DEF CommitUpdate, TypeOK
  <2>3. ASSUME CommitPolicy(c) PROVE chan' \in [Channels -> Flags]
    <3>1. pol[c].mandatory \in BOOLEAN
      BY <2>3 DEF CommitPolicy, TypeOK, Policies
    <3>2. [chan[c] EXCEPT !.mandatory = pol[c].mandatory] \in Flags
      BY <2>1, <3>1 DEF Flags
    <3> QED BY <2>3, <3>2 DEF CommitPolicy, TypeOK
  <2>4. ASSUME NEW b \in BOOLEAN, SetCoordinationMembers(c, b) PROVE chan' \in [Channels -> Flags]
    <3>1. /\ [chan[c] EXCEPT !.member = TRUE, !.subscribed = FALSE] \in Flags
          /\ [chan[c] EXCEPT !.member = FALSE, !.subscribed = FALSE] \in Flags
      BY Zenon, <2>1 DEF Flags
    <3> QED BY <2>1, <2>4, <3>1 DEF SetCoordinationMembers, TypeOK
  <2>5. ASSUME ReconcileDM(c) PROVE chan' \in [Channels -> Flags]
    <3>1. [chan[c] EXCEPT !.mandatory = TRUE, !.member = chan[c].member \/ c \in Parties] \in Flags
      BY Zenon, <2>1 DEF Flags
    <3> QED BY <2>1, <2>5, <3>1 DEF ReconcileDM, TypeOK
  <2> QED BY <2>2, <2>3, <2>4, <2>5
          DEF Membership, BeginUpdate, AbortUpdate, BeginPolicy, AbortPolicy, ResolveDM, TypeOK
<1>3. upd' \in [Channels -> Updates \union {Nil}]
  <2>1. [mandatory |-> chan[c].mandatory, head |-> Head(c)] \in Updates
    BY HeadType DEF TypeOK, Flags, Updates
  <2> QED BY <2>1 DEF Membership, BeginUpdate, AbortUpdate, CommitUpdate, BeginPolicy, CommitPolicy, AbortPolicy,
                     SetCoordinationMembers, ResolveDM, ReconcileDM, TypeOK
<1>4. pol' \in [Channels -> Policies \union {Nil}]
  <2>1. \A b \in BOOLEAN : [mandatory |-> b, head |-> Head(c),
                           seeds |-> b /\ ~chan[c].mandatory /\ chan[c].member] \in Policies
    BY HeadType DEF TypeOK, Flags, Policies
  <2> QED BY <2>1 DEF Membership, BeginUpdate, AbortUpdate, CommitUpdate, BeginPolicy, CommitPolicy, AbortPolicy,
                     SetCoordinationMembers, ResolveDM, ReconcileDM, TypeOK
<1>5. reopening' \subseteq DMs
  BY DEF Membership, BeginUpdate, AbortUpdate, CommitUpdate, BeginPolicy, CommitPolicy, AbortPolicy,
         SetCoordinationMembers, ResolveDM, ReconcileDM, TypeOK
<1> QED BY <1>1, <1>2, <1>3, <1>4, <1>5 DEF TypeOK, posts, SeedsOnly

-----------------------------------------------------------------------------
(* The part of TargetsInv about one channel that was not created as a DM.      *)
TargetInv(c) ==
    /\ InSweepSet(c) => cursor[c] # Nil
    /\ ~chan[c].dm
    /\ upd[c] = Nil \/ pol[c] = Nil
    /\ upd[c] # Nil => (upd[c].mandatory <=> chan[c].mandatory)
    /\ (pol[c] # Nil /\ pol[c].mandatory /\ chan[c].member) => (cursor[c] # Nil \/ pol[c].seeds)

(* A membership step of a channel leaves the other channels' targets alone and *)
(* keeps its own seeded.                                                       *)
LEMMA MembershipTargets ==
    ASSUME TypeOK, TargetsInv, NEW c \in Channels, Membership(c)
    PROVE  TargetsInv'
<1>1. SeedsOnly /\ TypeOK'
  BY MembershipSeeds
<1>2. \A d \in Channels : d # c => chan'[d] = chan[d] /\ upd'[d] = upd[d] /\ pol'[d] = pol[d]
  BY DEF Membership, BeginUpdate, AbortUpdate, CommitUpdate, BeginPolicy, CommitPolicy, AbortPolicy,
         SetCoordinationMembers, ResolveDM, ReconcileDM, TypeOK
<1>3. \A d \in Channels : cursor[d] # Nil => cursor'[d] # Nil
  BY <1>1 DEF SeedsOnly
<1>4. \A d \in Parties \union Home : cursor'[d] # Nil
  BY <1>3, ChannelsAssumption, HomeAssumption DEF TargetsInv
<1>5. \A d \in Channels \ DMs : d # c => TargetInv(d)'
  BY <1>2, <1>3 DEF TargetsInv, TargetInv, InSweepSet
<1>6. ASSUME c \notin DMs PROVE TargetInv(c)'
  <2>1. TargetInv(c)
    BY <1>6 DEF TargetsInv, TargetInv
  <2>2. chan[c] \in Flags /\ chan \in [Channels -> Flags] /\ upd \in [Channels -> Updates \union {Nil}]
          /\ pol \in [Channels -> Policies \union {Nil}]
    BY DEF TypeOK
  <2>3. cursor[c] # Nil => cursor'[c] # Nil
    BY <1>3
  <2>4. CASE BeginUpdate(c)
    <3>1. chan' = chan /\ pol' = pol /\ pol[c] = Nil /\ upd'[c].mandatory = chan[c].mandatory
      BY <2>4, <2>2 DEF BeginUpdate, Unlocked
    <3> QED BY <2>1, <2>3, <3>1 DEF TargetInv, InSweepSet
  <2>5. CASE AbortUpdate(c)
    BY <2>1, <2>2, <2>3, <2>5 DEF AbortUpdate, TargetInv, InSweepSet
  <2>6. ASSUME NEW u \in MemberUpdates, CommitUpdate(c, u) PROVE TargetInv(c)'
    <3>1. upd[c] # Nil /\ pol[c] = Nil /\ ~Converts(c, u) /\ (upd[c].mandatory <=> chan[c].mandatory)
      BY <2>1, <2>6 DEF CommitUpdate, Converts, TargetInv
    <3>2. chan'[c] = Applied(chan[c], u) /\ upd'[c] = Nil /\ pol'[c] = Nil
      BY <2>2, <2>6, <3>1 DEF CommitUpdate
    <3>3. SeedIf(Seeds(c, u), c, upd[c].head) /\ upd[c].head \in Heads
      BY <2>2, <2>6, <3>1 DEF CommitUpdate, Updates
    <3>4. Seeds(c, u) => cursor'[c] # Nil
      BY Zenon, <3>3, SeedIfSpec
    <3>5. InSweepSet(c)' => Seeds(c, u) \/ InSweepSet(c) \/ c \in Home
      <4>1. CASE u = "subscribe"
        BY <4>1 DEF Seeds
      <4>2. CASE u = "add"
        BY Zenon, <2>2, <3>1, <3>2, <4>2 DEF Applied, InSweepSet, Seeds, Flags
      <4>3. CASE u = "unsubscribe"
        <5>1. ~chan[c].mandatory
          BY <2>6, <3>1, <4>3 DEF CommitUpdate, Refuses
        <5> QED BY Zenon, <2>2, <3>2, <4>3, <5>1 DEF Applied, InSweepSet, Flags
      <4>4. CASE u = "remove"
        BY Zenon, <2>2, <3>2, <4>4 DEF Applied, InSweepSet, Flags
      <4>5. CASE u = "addOther"
        BY <3>2, <4>5 DEF Applied, InSweepSet
      <4> QED BY <4>1, <4>2, <4>3, <4>4, <4>5 DEF MemberUpdates
    <3>6. ~chan'[c].dm
      <4>1. ~chan[c].dm
        BY <2>1 DEF TargetInv
      <4> QED BY <2>2, <3>2, <4>1 DEF Applied, Flags, MemberUpdates
    <3> QED BY <1>4, <2>1, <2>3, <3>2, <3>4, <3>5, <3>6 DEF TargetInv
  <2>7. ASSUME NEW b \in BOOLEAN, BeginPolicy(c, b) PROVE TargetInv(c)'
    <3>1. /\ chan' = chan /\ upd' = upd /\ upd[c] = Nil
          /\ pol'[c].mandatory = b /\ pol'[c].seeds = (b /\ ~chan[c].mandatory /\ chan[c].member)
      BY <2>2, <2>7 DEF BeginPolicy, Unlocked
    <3>2. (b /\ chan[c].member) => (cursor'[c] # Nil \/ pol'[c].seeds)
      BY <2>1, <2>2, <2>3, <3>1 DEF TargetInv, InSweepSet, Flags
    <3> QED BY <2>1, <2>3, <3>1, <3>2 DEF TargetInv, InSweepSet
  <2>8. CASE CommitPolicy(c)
    <3>1. pol[c] # Nil /\ upd[c] = Nil /\ upd' = upd /\ pol'[c] = Nil
      BY <2>1, <2>2, <2>8 DEF CommitPolicy, TargetInv
    <3>2. chan'[c] = [chan[c] EXCEPT !.mandatory = pol[c].mandatory]
      BY <2>2, <2>8 DEF CommitPolicy
    <3>3. SeedIf(pol[c].seeds, c, pol[c].head) /\ pol[c].head \in Heads
      BY <2>2, <2>8 DEF CommitPolicy, Policies
    <3>4. pol[c].seeds => cursor'[c] # Nil
      BY Zenon, <3>3, SeedIfSpec
    <3>5. InSweepSet(c)' => cursor'[c] # Nil
      BY <1>4, <2>1, <2>2, <2>3, <3>1, <3>2, <3>4 DEF TargetInv, InSweepSet, Flags
    <3>6. ~chan'[c].dm
      BY <2>1, <2>2, <3>2 DEF TargetInv, Flags
    <3> QED BY <3>1, <3>5, <3>6 DEF TargetInv
  <2>9. CASE AbortPolicy(c)
    BY <2>1, <2>2, <2>3, <2>9 DEF AbortPolicy, TargetInv, InSweepSet
  <2>10. ASSUME NEW b \in BOOLEAN, SetCoordinationMembers(c, b) PROVE TargetInv(c)'
    <3>1. upd' = upd /\ pol' = pol
      BY <2>10 DEF SetCoordinationMembers
    <3>2. (b /\ ~chan[c].member) => cursor'[c] # Nil
      BY Zenon, <2>10, HeadType, SeedIfSpec DEF SetCoordinationMembers
    <3>3. ASSUME b, ~chan[c].member PROVE TargetInv(c)'
      <4>1. chan'[c] = [chan[c] EXCEPT !.member = TRUE, !.subscribed = FALSE]
        BY <2>2, <2>10, <3>3 DEF SetCoordinationMembers
      <4>2. chan'[c].dm = chan[c].dm /\ chan'[c].mandatory = chan[c].mandatory
        BY <2>2, <4>1 DEF Flags
      <4> QED BY <2>1, <3>1, <3>2, <3>3, <4>2 DEF TargetInv
    <3>4. ASSUME b, chan[c].member PROVE TargetInv(c)'
      <4>1. chan'[c] = chan[c]
        BY <2>2, <2>10, <3>4 DEF SetCoordinationMembers
      <4> QED BY <2>1, <2>3, <3>1, <4>1 DEF TargetInv, InSweepSet
    <3>5. ASSUME ~b PROVE TargetInv(c)'
      <4>1. chan'[c] = [chan[c] EXCEPT !.member = FALSE, !.subscribed = FALSE]
        BY <2>2, <2>10, <3>5 DEF SetCoordinationMembers
      <4>2. chan'[c].dm = chan[c].dm /\ chan'[c].mandatory = chan[c].mandatory /\ ~chan'[c].member
        BY <2>2, <4>1 DEF Flags
      <4> QED BY <2>1, <3>1, <4>2 DEF TargetInv, InSweepSet
    <3> QED BY <3>3, <3>4, <3>5
  <2>11. ~ResolveDM(c)
    BY <1>6 DEF ResolveDM
  <2>12. ~ReconcileDM(c)
    BY <1>6 DEF ReconcileDM, TypeOK
  <2> QED BY <2>4, <2>5, <2>6, <2>7, <2>8, <2>9, <2>10, <2>11, <2>12 DEF Membership
<1> QED BY <1>4, <1>5, <1>6 DEF TargetsInv, TargetInv

-----------------------------------------------------------------------------
(* What an ack that advances a cursor makes of the row: it crosses numbers     *)
(* that are acked, the agent's own or out of reach, and keeps every other      *)
(* acked number.                                                               *)
LEMMA AdvancedSpec ==
    ASSUME TypeOK, RowsInv, NEW m \in msgs, Advances(m.chan, m.seq)
    PROVE  LET row == cursor[m.chan]
               new == Advanced(m.chan, m.seq)
               all == row.above \union {m.seq}
           IN  /\ new \in Rows /\ new.acked >= row.acked
               /\ \A i \in (row.acked + 1)..new.acked : i \in all \/ i \in Skippable(m.chan)
               /\ new.above = {i \in all : i > new.acked}
               /\ new.acked + 1 \notin all
<1> DEFINE c == m.chan
           row == cursor[c]
           all == row.above \union {m.seq}
           S == Drainable(c, all)
           k == Contiguous(row.acked, S)
<1>1. m \in Messages /\ c \in Channels /\ m.seq \in Seqs
  BY DEF TypeOK, Messages
<1>2. row \in Rows
  BY <1>1 DEF Advances, TypeOK
<1>3. row.acked \in Heads /\ all \in SUBSET Seqs
  BY <1>1, <1>2 DEF Rows
<1>4. Skippable(c) \in SUBSET Seqs
  BY DEF Skippable, InChannel, TypeOK, Messages
<1>5. S \in SUBSET Seqs /\ S = all \union Skippable(c)
  BY <1>3, <1>4 DEF Drainable
<1>6. k \in Heads /\ k >= row.acked /\ k + 1 \notin S /\ \A i \in (row.acked + 1)..k : i \in S
  <2> HIDE DEF S
  <2> QED BY <1>3, <1>5, ContiguousSpec
<1>7. Advanced(c, m.seq) = [acked |-> k, above |-> {i \in all : i > k}]
  BY DEF Advanced, Retained
<1> HIDE DEF k, S, all
<1>8. {i \in all : i > k} \in SUBSET Seqs
  BY <1>3
<1>9. Advanced(c, m.seq) \in Rows /\ Advanced(c, m.seq).acked = k /\ Advanced(c, m.seq).above = {i \in all : i > k}
  BY <1>6, <1>7, <1>8 DEF Rows
<1> QED BY <1>5, <1>6, <1>9 DEF all

(* An ack keeps the rows' invariant.                                           *)
LEMMA AckKeepsRows ==
    ASSUME TypeOK, RowsInv, NEW m \in msgs, AckDelivery(m)
    PROVE  TypeOK' /\ RowsInv'
<1> DEFINE c == m.chan
<1>1. c \in Channels /\ m.seq \in Seqs /\ m \in Messages
  BY DEF TypeOK, Messages
<1>2. /\ nextSeq' = nextSeq /\ open' = open /\ msgs' = msgs /\ reach' = reach
      /\ chan' = chan /\ upd' = upd /\ pol' = pol /\ reopening' = reopening /\ seeded' = seeded
  BY DEF AckDelivery, posts, members
<1>3. acks' = (IF cursor[c] = Nil THEN acks ELSE acks \union {m.seq}) /\ owed' = owed \ {m.seq}
  BY DEF AckDelivery
<1>4. acks \subseteq acks' /\ \A i \in acks' : i \in acks \/ (i = m.seq /\ cursor[c] # Nil)
  BY <1>3
<1>5. NumbersInv'
  BY <1>2, <1>4 DEF RowsInv, NumbersInv
<1>6. ASSUME Advances(c, m.seq) PROVE TypeOK' /\ RowsInv'
  <2> DEFINE row == cursor[c]
             new == Advanced(c, m.seq)
             all == row.above \union {m.seq}
  <2>1. /\ new \in Rows /\ new.acked >= row.acked
        /\ \A i \in (row.acked + 1)..new.acked : i \in all \/ i \in Skippable(c)
        /\ new.above = {i \in all : i > new.acked}
        /\ new.acked + 1 \notin all
    BY <1>6, AdvancedSpec
  <2>2. cursor' = [cursor EXCEPT ![c] = new] /\ passed' = passed \union PassedOver(c, m.seq)
    BY <1>6 DEF AckDelivery
  <2>3. row # Nil /\ row \in Rows /\ new # Nil /\ acks' = acks \union {m.seq}
    BY <1>1, <1>3, <1>6, <2>1, NilAssumption DEF Advances, TypeOK
  <2>4. PassedOver(c, m.seq) \subseteq Seqs
    BY DEF PassedOver, InChannel, TypeOK, Messages
  <2>5. cursor'[c] = new /\ \A d \in Channels : d # c => cursor'[d] = cursor[d]
    BY <1>1, <2>2 DEF TypeOK
  <2>6. TypeOK'
    BY <1>1, <1>2, <1>3, <2>1, <2>2, <2>3, <2>4 DEF TypeOK
  <2> HIDE DEF new
  <2>7. CrossedInv'
    <3> SUFFICES ASSUME NEW d \in Channels, cursor'[d] # Nil,
                        NEW i \in Seqs, seeded[d] < i, i <= cursor'[d].acked
                 PROVE  \E n \in msgs : n.chan = d /\ n.seq = i /\ (n.author = Self \/ i \in acks' \union passed')
      BY <1>2 DEF CrossedInv
    <3>1. passed \subseteq passed' /\ acks \subseteq acks'
      BY <1>4, <2>2
    <3>2. CASE d # c
      BY <2>5, <3>1, <3>2 DEF RowsInv, CrossedInv
    <3>3. CASE d = c /\ i <= row.acked
      BY <2>3, <3>1, <3>3 DEF RowsInv, CrossedInv
    <3>4. CASE d = c /\ ~(i <= row.acked)
      <4>1. row.acked \in Heads /\ new.acked \in Heads
        BY <2>1, <2>3 DEF Rows
      <4>2. i \in (row.acked + 1)..new.acked
        BY <2>5, <3>4, <4>1 DEF Seqs, Heads
      <4>3. CASE i = m.seq
        BY <1>1, <2>3, <3>4, <4>3
      <4>4. CASE i \in row.above
        BY <2>3, <3>1, <3>4, <4>4 DEF RowsInv, AboveInv
      <4>5. CASE i \in Skippable(c)
        <5>1. PICK n \in msgs : n.chan = c /\ n.seq = i /\ (n.author = Self \/ OutOfReach(n))
          BY <4>5 DEF Skippable, InChannel
        <5>2. CASE OutOfReach(n)
          <6>1. n.seq \in PassedOver(c, m.seq)
            BY <4>2, <5>1, <5>2 DEF PassedOver, InChannel, new
          <6> QED BY <2>2, <3>4, <5>1, <6>1
        <5> QED BY <3>4, <5>1, <5>2
      <4> QED BY <2>1, <4>2, <4>3, <4>4, <4>5
    <3> QED BY <3>2, <3>3, <3>4
  <2>8. AboveInv'
    <3> SUFFICES ASSUME NEW d \in Channels, cursor'[d] # Nil, NEW i \in cursor'[d].above
                 PROVE  /\ i \in acks' /\ i > cursor'[d].acked + 1
                        /\ \E n \in msgs : n.chan = d /\ n.seq = i
      BY <1>2 DEF AboveInv
    <3>1. CASE d # c
      BY <1>4, <2>5, <3>1 DEF RowsInv, AboveInv
    <3>2. CASE d = c
      <4>1. i \in all /\ i > new.acked /\ i # new.acked + 1 /\ new.acked \in Heads
        BY <2>1, <2>5, <3>2 DEF Rows
      <4>2. i \in Seqs
        BY <1>1, <2>3, <4>1 DEF Rows
      <4>3. i > new.acked + 1
        BY <4>1, <4>2 DEF Seqs, Heads
      <4>4. i \in acks' /\ \E n \in msgs : n.chan = c /\ n.seq = i
        <5>1. CASE i = m.seq
          BY <2>3, <5>1
        <5>2. CASE i \in row.above
          BY <1>1, <2>3, <5>2 DEF RowsInv, AboveInv
        <5> QED BY <4>1, <5>1, <5>2
      <4> QED BY <2>5, <3>2, <4>3, <4>4
    <3> QED BY <3>1, <3>2
  <2>9. AckedNotSwept'
    <3> SUFFICES ASSUME NEW n \in msgs, n.seq \in acks'
                 PROVE  Excluded(n.chan, n.seq)' /\ cursor'[n.chan] # Nil
      BY <1>2 DEF AckedNotSwept
    <3>1. n.chan \in Channels /\ n.seq \in Seqs
      BY DEF TypeOK, Messages
    <3>2. CASE n.chan # c
      <4>1. n.seq \in acks
        <5>1. n.seq = m.seq => n = m
          BY DEF RowsInv, NumbersInv
        <5> QED BY <2>3, <3>2, <5>1
      <4> QED BY <2>5, <3>1, <3>2, <4>1 DEF RowsInv, AckedNotSwept, Excluded
    <3>3. CASE n.chan = c
      <4>1. n.seq <= row.acked \/ n.seq \in all
        BY <2>3, <3>3 DEF RowsInv, AckedNotSwept, Excluded
      <4>2. row.acked \in Heads /\ new.acked \in Heads
        BY <2>1, <2>3 DEF Rows
      <4>3. n.seq <= new.acked \/ n.seq \in new.above
        BY <2>1, <3>1, <4>1, <4>2 DEF Seqs, Heads
      <4> QED BY <2>3, <2>5, <3>3, <4>3 DEF Excluded
    <3> QED BY <3>2, <3>3
  <2> QED BY <1>5, <2>6, <2>7, <2>8, <2>9 DEF RowsInv
<1>7. ASSUME ~Advances(c, m.seq) PROVE TypeOK' /\ RowsInv'
  <2>1. cursor' = cursor /\ passed' = passed
    BY <1>7 DEF AckDelivery
  <2>2. TypeOK'
    BY <1>1, <1>2, <1>3, <2>1 DEF TypeOK
  <2>3. CrossedInv'
    BY <1>2, <1>4, <2>1 DEF RowsInv, CrossedInv
  <2>4. AboveInv'
    BY <1>2, <1>4, <2>1 DEF RowsInv, AboveInv
  <2>5. AckedNotSwept'
    <3> SUFFICES ASSUME NEW n \in msgs, n.seq \in acks'
                 PROVE  Excluded(n.chan, n.seq) /\ cursor[n.chan] # Nil
      BY <1>2, <2>1 DEF AckedNotSwept, Excluded
    <3>1. CASE n.seq \in acks
      BY <3>1 DEF RowsInv, AckedNotSwept
    <3>2. CASE n.seq = m.seq /\ cursor[c] # Nil
      <4>1. n = m
        BY <3>2 DEF RowsInv, NumbersInv
      <4>2. cursor[c] \in Rows
        BY <1>1, <3>2 DEF TypeOK
      <4>3. m.seq <= cursor[c].acked
        BY <1>1, <1>7, <3>2, <4>2, BoundAssumption DEF Advances, Rows, Seqs, Heads
      <4> QED BY <3>2, <4>1, <4>3 DEF Excluded
    <3> QED BY <1>4, <3>1, <3>2
  <2> QED BY <1>5, <2>2, <2>3, <2>4, <2>5 DEF RowsInv
<1> QED BY <1>6, <1>7

-----------------------------------------------------------------------------
(* A post draws a number nobody has; a commit makes it visible under a number  *)
(* no row has crossed or acked.                                                *)
LEMMA PostKeepsRows ==
    ASSUME TypeOK, RowsInv, Post
    PROVE  TypeOK' /\ RowsInv'
<1>1. UNCHANGED <<reach, members, cursor, owed, acks, passed>>
  BY DEF Post, Insert, Commit, Rollback
<1>2. /\ chan' = chan /\ upd' = upd /\ pol' = pol /\ reopening' = reopening /\ seeded' = seeded
      /\ cursor' = cursor /\ acks' = acks /\ passed' = passed
  BY <1>1 DEF members
<1>3. ASSUME NEW c \in Channels, NEW a \in Authors, Insert(c, a) PROVE TypeOK' /\ NumbersInv' /\ msgs' = msgs
  <2> DEFINE new == [seq |-> nextSeq + 1, chan |-> c, author |-> a]
  <2>1. nextSeq' = nextSeq + 1 /\ open' = open \union {new} /\ msgs' = msgs /\ nextSeq < MaxSeq
    BY <1>3 DEF Insert
  <2>2. nextSeq \in Nat /\ new \in Messages /\ new.seq = nextSeq + 1
    BY <2>1, BoundAssumption DEF TypeOK, Messages, Heads, Seqs
  <2>3. \A m \in open \union msgs : m.seq \in Nat /\ m.seq <= nextSeq
    BY BoundAssumption DEF RowsInv, NumbersInv, TypeOK, Messages, Seqs
  <2> HIDE DEF new
  <2>4. TypeOK'
    BY <1>1, <1>2, <2>1, <2>2, BoundAssumption DEF TypeOK, Heads
  <2>5. \A m, n \in open' \union msgs' : m.seq = n.seq => m = n
    BY <2>1, <2>2, <2>3 DEF RowsInv, NumbersInv
  <2>6. \A m \in open' \union msgs' : m.seq <= nextSeq'
    BY <2>1, <2>2, <2>3
  <2>7. \A i \in acks' : \E m \in msgs' : m.seq = i
    BY <1>2, <2>1 DEF RowsInv, NumbersInv
  <2> QED BY <2>1, <2>4, <2>5, <2>6, <2>7 DEF NumbersInv
<1>4. ASSUME NEW m \in open, Commit(m) \/ Rollback(m)
      PROVE  TypeOK' /\ NumbersInv' /\ msgs \subseteq msgs' /\ msgs' \subseteq msgs \union {m}
  <2>1. /\ nextSeq' = nextSeq /\ open' = open \ {m}
        /\ msgs' = msgs \/ msgs' = msgs \union {m}
    BY <1>4 DEF Commit, Rollback
  <2>2. TypeOK'
    BY <1>1, <1>2, <2>1 DEF TypeOK
  <2>3. NumbersInv'
    BY <1>2, <2>1 DEF RowsInv, NumbersInv
  <2> QED BY <2>1, <2>2, <2>3
<1>5. TypeOK' /\ NumbersInv' /\ msgs \subseteq msgs'
  BY <1>3, <1>4 DEF Post
<1>6. CrossedInv'
  BY <1>2, <1>5 DEF RowsInv, CrossedInv
<1>7. AboveInv'
  BY <1>2, <1>5 DEF RowsInv, AboveInv
<1>8. AckedNotSwept'
  <2> SUFFICES ASSUME NEW n \in msgs', n.seq \in acks
               PROVE  Excluded(n.chan, n.seq) /\ cursor[n.chan] # Nil
    BY <1>2 DEF AckedNotSwept, Excluded
  <2>1. PICK k \in msgs : k.seq = n.seq
    BY DEF RowsInv, NumbersInv
  <2>2. n = k
    BY <1>5, <2>1 DEF NumbersInv
  <2> QED BY <2>1, <2>2 DEF RowsInv, AckedNotSwept
<1> QED BY <1>5, <1>6, <1>7, <1>8 DEF RowsInv

(* The targets' invariant reads only the membership state and the rows'        *)
(* presence.                                                                   *)
LEMMA TargetsKept ==
    ASSUME TargetsInv, UNCHANGED <<chan, upd, pol>>,
           \A c \in Channels : cursor[c] # Nil => cursor'[c] # Nil
    PROVE  TargetsInv'
BY ChannelsAssumption, HomeAssumption DEF TargetsInv, InSweepSet

(* The rows are about the posts, the cursors, the seeds and the acks alone.    *)
LEMMA RowsKept ==
    ASSUME RowsInv, UNCHANGED <<nextSeq, open, msgs, cursor, seeded, acks, passed>>
    PROVE  RowsInv'
<1>1. NumbersInv'
  BY DEF RowsInv, NumbersInv
<1>2. CrossedInv'
  BY DEF RowsInv, CrossedInv
<1>3. AboveInv'
  BY DEF RowsInv, AboveInv
<1>4. AckedNotSwept'
  BY DEF RowsInv, AckedNotSwept, Excluded
<1> QED BY <1>1, <1>2, <1>3, <1>4 DEF RowsInv

-----------------------------------------------------------------------------
(* The invariant holds of freshly created channels.                            *)
LEMMA InitInv == Init => CursorInv
<1> SUFFICES ASSUME Init PROVE CursorInv
  OBVIOUS
<1>1. PICK born \in [Channels -> UNION {Created(c) : c \in Channels}] :
         /\ \A c \in Channels : born[c] \in Created(c)
         /\ chan = [c \in Channels |-> born[c].flags]
         /\ cursor = [c \in Channels |-> born[c].row]
  BY DEF Init
<1>2. NoRow \in Rows /\ NoRow # Nil /\ NoRow.acked = 0 /\ NoRow.above = {}
  <2>1. NoRow \in Rows /\ NoRow.acked = 0 /\ NoRow.above = {}
    BY BoundAssumption DEF NoRow, Rows, Heads
  <2> QED BY <2>1, NilAssumption
<1>3. \A c \in Channels :
        /\ chan[c] \in Flags /\ cursor[c] \in {NoRow, Nil}
        /\ c \in Parties \union Home => cursor[c] # Nil
        /\ c \notin DMs => ~chan[c].dm /\ (InSweepSet(c) => cursor[c] # Nil)
  <2> SUFFICES ASSUME NEW c \in Channels
               PROVE  /\ chan[c] \in Flags /\ cursor[c] \in {NoRow, Nil}
                      /\ c \in Parties \union Home => cursor[c] # Nil
                      /\ c \notin DMs => ~chan[c].dm /\ (InSweepSet(c) => cursor[c] # Nil)
    BY Zenon
  <2>1. chan[c] = born[c].flags /\ cursor[c] = born[c].row /\ born[c] \in Created(c)
    BY <1>1
  <2>2. CASE c \in DMs
    <3>1. born[c] = [flags |-> [dm |-> TRUE, member |-> c \in Parties, subscribed |-> FALSE, mandatory |-> TRUE],
                     row |-> IF c \in Parties THEN NoRow ELSE Nil]
      BY <2>1, <2>2 DEF Created
    <3>2. /\ chan[c] = [dm |-> TRUE, member |-> c \in Parties, subscribed |-> FALSE, mandatory |-> TRUE]
          /\ cursor[c] = IF c \in Parties THEN NoRow ELSE Nil
      BY <2>1, <3>1
    <3>3. chan[c] \in Flags
      BY <3>2 DEF Flags
    <3> QED BY <1>2, <2>2, <3>2, <3>3, HomeAssumption
  <2>3. CASE c \notin DMs
    <3> DEFINE f(b) == [dm |-> FALSE, member |-> b, subscribed |-> b, mandatory |-> FALSE]
    <3>1. \/ born[c] = [flags |-> f(TRUE), row |-> NoRow]
          \/ c \notin Home /\ born[c] = [flags |-> f(FALSE), row |-> Nil]
      BY <2>1, <2>3 DEF Created
    <3>2. \/ chan[c] = f(TRUE) /\ cursor[c] = NoRow
          \/ c \notin Home /\ chan[c] = f(FALSE) /\ cursor[c] = Nil
      <4>1. CASE born[c] = [flags |-> f(TRUE), row |-> NoRow]
        <5> HIDE DEF f
        <5> QED BY <2>1, <4>1
      <4>2. CASE c \notin Home /\ born[c] = [flags |-> f(FALSE), row |-> Nil]
        <5> HIDE DEF f
        <5>1. born[c] = [flags |-> f(FALSE), row |-> Nil]
          BY <4>2
        <5>2. chan[c] = f(FALSE) /\ cursor[c] = Nil
          BY <2>1, <5>1
        <5> QED BY <4>2, <5>2
      <4> QED BY <3>1, <4>1, <4>2, Zenon
    <3>3. f(TRUE) \in Flags /\ f(FALSE) \in Flags /\ ~f(TRUE).dm /\ ~f(FALSE).dm /\ ~f(FALSE).member
      BY DEF Flags
    <3>4. c \notin Parties
      BY <2>3, ChannelsAssumption
    <3> HIDE DEF f
    <3> QED BY Zenon, <1>2, <3>2, <3>3, <3>4 DEF InSweepSet
  <2> QED BY <2>2, <2>3
<1>4. TypeOK
  <2>1. chan \in [Channels -> Flags] /\ cursor \in [Channels -> Rows \union {Nil}]
    BY <1>1, <1>2, <1>3
  <2> QED BY <2>1, BoundAssumption DEF Init, TypeOK, Heads
<1>5. RowsInv
  <2>1. NumbersInv /\ AckedNotSwept
    BY DEF Init, NumbersInv, AckedNotSwept
  <2>2. CrossedInv
    <3>1. \A c \in Channels : cursor[c] # Nil => cursor[c].acked = 0
      BY <1>2, <1>3
    <3> QED BY <3>1, BoundAssumption DEF CrossedInv, Seqs
  <2>3. AboveInv
    BY <1>2, <1>3 DEF AboveInv
  <2> QED BY <2>1, <2>2, <2>3 DEF RowsInv
<1>6. TargetsInv
  BY Zenon, <1>3, ChannelsAssumption, HomeAssumption DEF Init, TargetsInv
<1> QED BY <1>4, <1>5, <1>6 DEF CursorInv

(* Every step keeps the invariant.                                             *)
LEMMA NextInv == CursorInv /\ [Next]_vars => CursorInv'
<1> SUFFICES ASSUME TypeOK, RowsInv, TargetsInv, [Next]_vars PROVE CursorInv'
  BY DEF CursorInv
<1>1. CASE Post
  <2>1. UNCHANGED <<members, cursor>>
    BY <1>1 DEF Post, Insert, Commit, Rollback
  <2>2. TargetsInv'
    BY <2>1, TargetsKept DEF members
  <2> QED BY <1>1, <2>2, PostKeepsRows DEF CursorInv
<1>2. ASSUME NEW R \in SUBSET Peers, SetReach(R) PROVE CursorInv'
  <2>1. TypeOK'
    BY <1>2 DEF SetReach, TypeOK, members
  <2>2. RowsInv'
    BY <1>2, RowsKept DEF SetReach, members
  <2>3. TargetsInv'
    BY <1>2, TargetsKept DEF SetReach, members
  <2> QED BY <2>1, <2>2, <2>3 DEF CursorInv
<1>3. ASSUME NEW c \in Managed, Membership(c) PROVE CursorInv'
  <2>1. c \in Channels
    BY ChannelsAssumption
  <2> QED BY <1>3, <2>1, MembershipSeeds, SeedKeepsRows, MembershipTargets DEF CursorInv
<1>4. ASSUME NEW m \in msgs, RecordOwedMention(m) \/ ClearOwedMention(m) PROVE CursorInv'
  <2>1. UNCHANGED <<posts, members, cursor, acks, passed>>
    BY <1>4 DEF RecordOwedMention, ClearOwedMention
  <2>2. owed' \subseteq Seqs
    BY <1>4 DEF RecordOwedMention, ClearOwedMention, TypeOK, Messages
  <2>3. TypeOK'
    BY <2>1, <2>2 DEF TypeOK, posts, members
  <2>4. RowsInv'
    BY <2>1, RowsKept DEF posts, members
  <2>5. TargetsInv'
    BY <2>1, TargetsKept DEF members
  <2> QED BY <2>3, <2>4, <2>5 DEF CursorInv
<1>5. ASSUME NEW m \in msgs, AckDelivery(m) PROVE CursorInv'
  <2>1. TypeOK' /\ RowsInv'
    BY <1>5, AckKeepsRows
  <2>2. UNCHANGED <<chan, upd, pol>> /\ \A c \in Channels : cursor[c] # Nil => cursor'[c] # Nil
    <3>1. UNCHANGED <<chan, upd, pol>>
      BY <1>5 DEF AckDelivery, members
    <3>2. Advances(m.chan, m.seq) => Advanced(m.chan, m.seq) # Nil
      BY AdvancedSpec, NilAssumption
    <3> QED BY <1>5, <3>1, <3>2 DEF AckDelivery, TypeOK
  <2> QED BY <2>1, <2>2, TargetsKept DEF CursorInv
<1>6. CASE UNCHANGED vars
  <2>1. UNCHANGED <<posts, members, cursor, owed, acks, passed>>
    BY <1>6 DEF vars
  <2>2. TypeOK'
    BY <2>1 DEF TypeOK, posts, members
  <2>3. RowsInv'
    BY <2>1, RowsKept DEF posts, members
  <2>4. TargetsInv'
    BY <2>1, TargetsKept DEF members
  <2> QED BY <2>2, <2>3, <2>4 DEF CursorInv
<1> QED BY <1>1, <1>2, <1>3, <1>4, <1>5, <1>6 DEF Next

(* The inductive invariant holds throughout.                                   *)
THEOREM CursorInvariant == Spec => []CursorInv
BY InitInv, NextInv, PTL DEF Spec

(* No unacked message above the seed ever leaves the agent's sweep, whatever   *)
(* the order of posts, commits, acks, peerings and membership changes.         *)
THEOREM Lossless == Spec => []SweepLossless
<1>1. CursorInv => SweepLossless
  <2> SUFFICES ASSUME CursorInv, NEW m \in msgs, cursor[m.chan] # Nil, m.seq > seeded[m.chan],
                      m.author # Self, m.seq \notin acks \union passed, Excluded(m.chan, m.seq)
               PROVE  FALSE
    BY DEF SweepLossless
  <2>1. m.chan \in Channels /\ m.seq \in Seqs /\ seeded[m.chan] \in Heads
    BY DEF CursorInv, TypeOK, Messages
  <2>2. m.seq \notin cursor[m.chan].above
    BY <2>1 DEF CursorInv, RowsInv, AboveInv
  <2>3. m.seq <= cursor[m.chan].acked
    BY <2>2 DEF Excluded
  <2>4. seeded[m.chan] < m.seq
    BY <2>1 DEF Seqs, Heads
  <2>5. PICK n \in msgs : n.seq = m.seq /\ (n.author = Self \/ m.seq \in acks \union passed)
    BY <2>1, <2>3, <2>4 DEF CursorInv, RowsInv, CrossedInv
  <2>6. n = m
    BY <2>5 DEF CursorInv, RowsInv, NumbersInv
  <2> QED BY <2>5, <2>6
<1> QED BY <1>1, CursorInvariant, PTL

(* An acked message is never owed again.                                       *)
THEOREM AckedStaysAcked == Spec => []AckedNotSwept
<1>1. CursorInv => AckedNotSwept
  BY DEF CursorInv, RowsInv
<1> QED BY <1>1, CursorInvariant, PTL

(* The above-set holds only acked numbers past a gap.                          *)
THEOREM AboveMinimal == Spec => []AbovePastGap
<1>1. CursorInv => AbovePastGap
  BY DEF CursorInv, RowsInv, AboveInv, AbovePastGap
<1> QED BY <1>1, CursorInvariant, PTL

(* Acked messages stay acked and the above-set is minimal.                     *)
THEOREM AcksExact == Spec => []AckedExact
BY AckedStaysAcked, AboveMinimal, PTL DEF AckedExact

(* Every delivery target of a channel not created as a DM has a cursor.        *)
THEOREM EveryTargetSeeded == Spec => []TargetsSeeded
<1>1. CursorInv => TargetsSeeded
  BY DEF CursorInv, TargetsInv, TargetsSeeded
<1> QED BY <1>1, CursorInvariant, PTL

(* No step moves a cursor back or forgets an acked number.                     *)
THEOREM CursorsOnlyAdvance == Spec => CursorMonotone
<1> DEFINE Kept == \A c \in Channels : cursor[c] # Nil =>
                     /\ cursor'[c] # Nil /\ cursor'[c].acked >= cursor[c].acked
                     /\ \A i \in cursor[c].above : i <= cursor'[c].acked \/ i \in cursor'[c].above
<1>1. CursorInv /\ [Next]_vars => [Kept]_vars
  <2> SUFFICES ASSUME TypeOK, RowsInv, Next PROVE Kept
    BY DEF CursorInv
  <2>1. \A c \in Channels : cursor[c] # Nil => cursor[c] \in Rows /\ cursor[c].acked \in Heads /\ cursor[c].above \subseteq Seqs
    BY DEF TypeOK, Rows
  <2>2. ASSUME cursor' = cursor PROVE Kept
    BY <2>1, <2>2 DEF Heads
  <2>3. ASSUME NEW d \in Managed, Membership(d) PROVE Kept
    <3>1. SeedsOnly
      BY <2>3, MembershipSeeds, ChannelsAssumption
    <3> QED BY <2>1, <3>1 DEF SeedsOnly, Heads
  <2>4. ASSUME NEW m \in msgs, AckDelivery(m), Advances(m.chan, m.seq) PROVE Kept
    <3> DEFINE c == m.chan
               new == Advanced(c, m.seq)
    <3>1. c \in Channels /\ cursor' = [cursor EXCEPT ![c] = new] /\ cursor[c] # Nil
      BY <2>4 DEF AckDelivery, Advances, TypeOK, Messages
    <3>2. /\ new \in Rows /\ new.acked >= cursor[c].acked
          /\ new.above = {i \in cursor[c].above \union {m.seq} : i > new.acked}
      BY <2>4, AdvancedSpec
    <3>3. new # Nil /\ new.acked \in Heads
      BY <3>2, NilAssumption DEF Rows
    <3> HIDE DEF new
    <3>4. cursor'[c] = new /\ \A d \in Channels : d # c => cursor'[d] = cursor[d]
      BY <3>1 DEF TypeOK
    <3>5. \A i \in cursor[c].above : i <= new.acked \/ i \in new.above
      BY <2>1, <3>1, <3>2, <3>3 DEF Seqs, Heads
    <3> QED BY <2>1, <3>2, <3>3, <3>4, <3>5 DEF Heads
  <2> QED BY Zenon, <2>2, <2>3, <2>4
          DEF Next, Post, Insert, Commit, Rollback, SetReach, RecordOwedMention, ClearOwedMention, AckDelivery
<1>2. CursorMonotone <=> [][Kept]_vars
  BY DEF CursorMonotone
<1> QED BY <1>1, <1>2, CursorInvariant, PTL DEF Spec
=============================================================================
