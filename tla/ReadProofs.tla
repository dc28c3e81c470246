----------------------------- MODULE ReadProofs ------------------------------
(***************************************************************************)
(* Reads: the walk over the event chain, for any records, links, counts    *)
(* and limits, and the walk over a paged listing, for any page size and    *)
(* any rows added meanwhile.                                               *)
(***************************************************************************)
EXTENDS EventChain, PagedReads, FiniteSetTheorems, SequenceTheorems, TLAPS

USE ChainAssumption, PagedAssumption

-----------------------------------------------------------------------------
(* The chain.  What was read is linked from the head on, without a record  *)
(* twice, and is the beginning of the committed chain where there is one.  *)

ChainType ==
  /\ link \in [EventKey -> EventKey \cup {NoKey, Missing}]
  /\ listed \in SUBSET Stored
  /\ chainHead \in [count : 0 .. MaxCount, last : EventKey \cup {NoKey}]
  /\ chainLimit \in {NoLimit} \cup (0 .. MaxCount)
  /\ chainAfter \in BOOLEAN
  /\ tooOld \in SUBSET Stored
  /\ ~chainAfter => tooOld = {}
  /\ ~FullRead => listed = Stored
  /\ chainKey \in EventKey \cup {NoKey}
  /\ chainSeen \in Seq(EventKey)
  /\ chainAt \in {"reading", "returned", "corrupt"}

Follows(i) ==
  chainSeen[i] = IF i = 1 THEN chainHead.last ELSE link[chainSeen[i - 1]]

SeenIsLinked ==
  /\ Len(chainSeen) <= chainHead.count
  /\ chainLimit # NoLimit => Len(chainSeen) <= chainLimit
  /\ IsInjective(chainSeen)
  /\ \A i \in 1 .. Len(chainSeen) :
       chainSeen[i] \in listed /\ chainSeen[i] \notin tooOld /\ Follows(i)
  /\ chainKey = IF Len(chainSeen) = 0 THEN chainHead.last
                ELSE link[chainSeen[Len(chainSeen)]]

BeginningOf(c) ==
  /\ \A i \in 1 .. Len(chainSeen) : chainSeen[i] = c[i]
  /\ chainHead.count > 0 =>
       chainKey = IF Len(chainSeen) < chainHead.count
                  THEN c[Len(chainSeen) + 1] ELSE NoKey

\* How a read ended says why.
ChainEnd ==
  /\ chainAt = "returned" =>
       IF WantsMore THEN ~Refused /\ chainKey \in tooOld ELSE ~WrongLength
  /\ chainAt = "corrupt" => IF WantsMore THEN Refused ELSE WrongLength

ChainInv ==
  ChainType /\ SeenIsLinked /\ ChainEnd /\ \A c \in Chain : BeginningOf(c)

\* A chain, spelled out.
LEMMA ChainIs ==
  ASSUME NEW c \in Chain
  PROVE  /\ IsChain(c) /\ c \in Seq(EventKey) /\ Len(c) = chainHead.count
         /\ chainHead.count > 0 => c[1] = chainHead.last
         /\ \A i \in 1 .. Len(c) :
              /\ c[i] \in EventKey /\ link[c[i]] # Missing
              /\ link[c[i]] = IF i < Len(c) THEN c[i + 1] ELSE NoKey
<1>1. IsChain(c) /\ c \in SeqOf(EventKey, MaxCount)
  BY DEF Chain
<1>2. PICK m \in 0 .. MaxCount : c \in [1 .. m -> EventKey]
  BY <1>1 DEF SeqOf
<1>3. c \in Seq(EventKey) /\ Len(c) \in Nat
      /\ \A i \in 1 .. Len(c) : c[i] \in EventKey
  BY <1>2
<1>4. Len(c) = chainHead.count /\ \A i \in 1 .. Len(c) :
        /\ link[c[i]] # Missing
        /\ c[i] = IF i = 1 THEN chainHead.last ELSE link[c[i-1]]
        /\ i = Len(c) => link[c[i]] = NoKey
  BY <1>1 DEF IsChain
<1>5. chainHead.count > 0 => c[1] = chainHead.last
  BY <1>3, <1>4
<1>6. ASSUME NEW i \in 1 .. Len(c)
      PROVE  link[c[i]] = IF i < Len(c) THEN c[i + 1] ELSE NoKey
  <2>1. CASE i < Len(c)
    <3>1. i + 1 \in 1 .. Len(c) /\ i + 1 # 1 /\ (i + 1) - 1 = i
      BY <2>1, <1>3
    <3>2. c[i + 1] = IF i + 1 = 1 THEN chainHead.last
                     ELSE link[c[(i + 1) - 1]]
      BY <1>4, <3>1
    <3> QED BY <2>1, <3>1, <3>2
  <2>2. CASE ~(i < Len(c))
    BY <2>2, <1>3, <1>4
  <2> QED BY <2>1, <2>2
<1> QED
  BY <1>1, <1>3, <1>4, <1>5, <1>6

LEMMA ChainInitInv == ChainInit => ChainInv
<1> SUFFICES ASSUME ChainInit PROVE ChainInv
  OBVIOUS
<1>1. ChainType
  BY DEF ChainInit, ChainType, Stored
<1>2. Len(chainSeen) = 0 /\ DOMAIN chainSeen = {} /\ chainAt = "reading"
      /\ chainKey = chainHead.last /\ chainHead.count \in Nat
  BY DEF ChainInit
<1>3. SeenIsLinked /\ ChainEnd
  BY <1>1, <1>2 DEF SeenIsLinked, ChainEnd, IsInjective, ChainType
<1>4. ASSUME NEW c \in Chain PROVE BeginningOf(c)
  BY <1>2, ChainIs DEF BeginningOf
<1> QED BY <1>1, <1>3, <1>4 DEF ChainInv

\* A step that keeps what was read, what is stored and what was asked.
SameRead == UNCHANGED <<chainArgs, chainKey, chainSeen>>

LEMMA SameReadKeeps ==
  ASSUME ChainInv, SameRead
  PROVE  /\ WantsMore' = WantsMore /\ Refused' = Refused
         /\ WrongLength' = WrongLength
         /\ chainAt' \in {"reading", "corrupt", "returned"} => ChainType'
         /\ SeenIsLinked' /\ \A c \in Chain' : BeginningOf(c)'
<1>1. UNCHANGED <<link, listed, chainHead, chainLimit, chainAfter, tooOld,
                  chainKey, chainSeen>>
  BY DEF SameRead, chainArgs
<1>2. chainAt' \in {"reading", "corrupt", "returned"} => ChainType'
  BY <1>1 DEF ChainInv, ChainType, Stored, FullRead
<1>3. SeenIsLinked'
  BY <1>1 DEF ChainInv, SeenIsLinked, Follows
<1>4. Chain' = Chain
  BY <1>1 DEF Chain, IsChain
<1>5. \A c \in Chain : BeginningOf(c)'
  BY <1>1 DEF ChainInv, BeginningOf
<1>6. WantsMore' = WantsMore /\ Refused' = Refused
      /\ WrongLength' = WrongLength
  BY <1>1 DEF WantsMore, Refused, WrongLength, FullRead
<1> QED BY <1>2, <1>3, <1>4, <1>5, <1>6

LEMMA ReadRecordKeeps ==
  ASSUME ChainInv, ReadRecord
  PROVE  ChainInv'
<1>1. UNCHANGED chainArgs /\ chainAt = "reading" /\ WantsMore
  BY DEF ReadRecord
<1>2. CASE Refused \/ chainKey \in tooOld
  <2>1. /\ UNCHANGED <<chainKey, chainSeen>>
        /\ \/ Refused /\ chainAt' = "corrupt"
           \/ ~Refused /\ chainKey \in tooOld /\ chainAt' = "returned"
    BY <1>2 DEF ReadRecord
  <2>2. SameRead
    BY <1>1, <2>1 DEF SameRead
  <2>3. WantsMore' /\ Refused' = Refused
        /\ chainKey' = chainKey /\ tooOld' = tooOld
    BY <1>1, <2>1, <2>2, SameReadKeeps DEF chainArgs
  <2>4. chainAt' \in {"corrupt", "returned"} /\ ChainEnd'
    BY <2>1, <2>3 DEF ChainEnd
  <2> QED BY <2>2, <2>4, SameReadKeeps DEF ChainInv
<1>3. CASE ~Refused /\ chainKey \notin tooOld
  <2> DEFINE n == Len(chainSeen)
  <2>1. /\ chainSeen' = Append(chainSeen, chainKey)
        /\ chainKey' = link[chainKey] /\ chainAt' = "reading"
    BY <1>1, <1>3 DEF ReadRecord
  <2>2. /\ chainKey \in EventKey /\ chainKey \in listed
        /\ n \in Nat /\ chainHead.count \in Nat /\ n < chainHead.count
        /\ chainKey \notin Range(chainSeen)
        /\ chainLimit # NoLimit => n < chainLimit /\ chainLimit \in Nat
        /\ chainSeen \in Seq(EventKey)
        /\ UNCHANGED <<link, listed, chainHead, chainLimit, chainAfter,
                       tooOld>>
    BY <1>1, <1>3 DEF ChainInv, ChainType, Refused, WantsMore, chainArgs
  <2>3. /\ chainSeen' \in Seq(EventKey) /\ Len(chainSeen') = n + 1
        /\ chainSeen'[n + 1] = chainKey
        /\ \A i \in 1 .. n : chainSeen'[i] = chainSeen[i]
        /\ DOMAIN chainSeen' = 1 .. n + 1
    BY <2>1, <2>2
  <2>4. ChainType'
    BY <2>1, <2>2, <2>3 DEF ChainInv, ChainType, Stored, FullRead
  <2> HIDE DEF n
  <2>5. SeenIsLinked'
    <3>1. IsInjective(chainSeen)'
      <4>1. \A i \in 1 .. n : chainSeen[i] # chainKey
        BY <2>2 DEF Range, n
      <4>2. \A i, j \in 1 .. n : chainSeen[i] = chainSeen[j] => i = j
        BY <2>2 DEF ChainInv, SeenIsLinked, IsInjective, n
      <4>3. \A i \in 1 .. n + 1 : i = n + 1 \/ i \in 1 .. n
        BY <2>2
      <4>4. \A i, j \in 1 .. n + 1 : chainSeen'[i] = chainSeen'[j] => i = j
        BY <2>3, <4>1, <4>2, <4>3
      <4> QED BY <2>3, <4>4 DEF IsInjective
    <3>2. ASSUME NEW i \in 1 .. n + 1
          PROVE  /\ chainSeen'[i] \in listed /\ chainSeen'[i] \notin tooOld
                 /\ Follows(i)'
      <4>1. CASE i \in 1 .. n
        <5>1. chainSeen[i] \in listed /\ chainSeen[i] \notin tooOld
              /\ Follows(i)
          BY <4>1 DEF ChainInv, SeenIsLinked, n
        <5>2. i # 1 => i - 1 \in 1 .. n
          BY <4>1, <2>2
        <5> QED BY <2>2, <2>3, <4>1, <5>1, <5>2 DEF Follows
      <4>2. CASE i = n + 1
        <5>1. chainKey = IF n = 0 THEN chainHead.last ELSE link[chainSeen[n]]
          BY DEF ChainInv, SeenIsLinked, n
        <5>2. i # 1 => i - 1 = n /\ n \in 1 .. n /\ n # 0
          BY <4>2, <2>2
        <5> QED BY <1>3, <2>2, <2>3, <4>2, <5>1, <5>2 DEF Follows
      <4> QED BY <4>1, <4>2, <2>2
    <3>3. Len(chainSeen') # 0 /\ chainSeen'[Len(chainSeen')] = chainKey
      BY <2>2, <2>3
    <3>4. Len(chainSeen') <= chainHead.count
          /\ (chainLimit # NoLimit => Len(chainSeen') <= chainLimit)
      BY <2>2, <2>3
    <3> QED BY <2>1, <2>2, <2>3, <3>1, <3>2, <3>3, <3>4 DEF SeenIsLinked
  <2>6. ASSUME NEW c \in Chain PROVE BeginningOf(c)'
    <3>1. BeginningOf(c) /\ chainKey = c[n + 1]
      BY <2>2 DEF ChainInv, BeginningOf, n
    <3>2. n + 1 \in 1 .. Len(c) /\ Len(c) = chainHead.count
      BY <2>2, ChainIs
    <3>3. link[chainKey] = IF n + 1 < Len(c) THEN c[n + 2] ELSE NoKey
      <4>1. (n + 1) + 1 = n + 2
        BY <2>2
      <4> QED BY <3>1, <3>2, <4>1, ChainIs
    <3>4. \A i \in 1 .. n + 1 : chainSeen'[i] = c[i]
      <4>1. \A i \in 1 .. n : chainSeen[i] = c[i]
        BY <3>1 DEF BeginningOf, n
      <4> QED BY <2>2, <2>3, <3>1, <4>1
    <3>5. (n + 1) + 1 = n + 2
      BY <2>2
    <3> QED BY <2>1, <2>2, <2>3, <3>2, <3>3, <3>4, <3>5 DEF BeginningOf
  <2>7. Chain' = Chain
    BY <2>2 DEF Chain, IsChain
  <2>8. ChainEnd'
    BY <2>1 DEF ChainEnd
  <2> QED BY <2>4, <2>5, <2>6, <2>7, <2>8 DEF ChainInv
<1> QED BY <1>2, <1>3

LEMMA ChainNextInv == ChainInv /\ [ChainNext]_chainVars => ChainInv'
<1> SUFFICES ASSUME ChainInv, [ChainNext]_chainVars PROVE ChainInv'
  OBVIOUS
<1>1. CASE ReadRecord
  BY <1>1, ReadRecordKeeps
<1>2. CASE ReadReturns
  <2>1. /\ SameRead /\ ~WantsMore
        /\ chainAt' = IF WrongLength THEN "corrupt" ELSE "returned"
    BY <1>2 DEF ReadReturns, SameRead
  <2>2. ChainEnd' /\ chainAt' \in {"corrupt", "returned"}
    BY <2>1, SameReadKeeps DEF ChainEnd
  <2> QED BY <2>1, <2>2, SameReadKeeps DEF ChainInv
<1>3. CASE UNCHANGED chainVars
  <2>1. SameRead /\ UNCHANGED <<chainAt, tooOld, chainKey>>
    BY <1>3 DEF chainVars, chainArgs, SameRead
  <2>2. ChainEnd' /\ chainAt' \in {"reading", "corrupt", "returned"}
    BY <2>1, SameReadKeeps DEF ChainInv, ChainType, ChainEnd
  <2> QED BY <2>1, <2>2, SameReadKeeps DEF ChainInv
<1> QED BY <1>1, <1>2, <1>3 DEF ChainNext

\* Inductive: what was read is linked, and a beginning of the chain if there is
\* one.
THEOREM ChainInvariant == ChainSpec => []ChainInv
BY ChainInitInv, ChainNextInv, PTL DEF ChainSpec

\* A full read returns exactly the committed chain, and refuses only where a
\* record of every chain is missing from the listing: _walk and _read_all
\* never shorten the history, whatever is stored.
THEOREM FullReadsAreWhole == ChainSpec => []EventsAreWholeOrRefused
<1>1. ASSUME ChainInv PROVE EventsAreWholeOrRefused
  <2> SUFFICES ASSUME FullRead, chainHead.count > 0,
                      chainHead.last # NoKey
               PROVE  /\ chainAt = "returned" => chainSeen \in Chain
                      /\ chainAt = "corrupt" =>
                           \A c \in Chain : ~(Range(c) \subseteq listed)
    BY DEF EventsAreWholeOrRefused
  <2> DEFINE n == Len(chainSeen)
  <2>1. /\ n \in Nat /\ chainHead.count \in Nat /\ n <= chainHead.count
        /\ chainHead.count <= MaxCount /\ chainSeen \in Seq(EventKey)
    BY <1>1 DEF ChainInv, ChainType, SeenIsLinked
  <2>2. ASSUME chainAt = "returned" PROVE chainSeen \in Chain
    <3>1. chainKey = NoKey /\ n = chainHead.count
      BY <1>1, <2>2
      DEF ChainInv, ChainType, ChainEnd, WantsMore, WrongLength, FullRead
    <3>2. chainSeen \in [1 .. n -> EventKey] /\ n \in 0 .. MaxCount
      BY <2>1, <3>1
    <3>3. chainSeen \in SeqOf(EventKey, MaxCount)
      BY <3>2 DEF SeqOf
    <3>4. link[chainSeen[n]] = NoKey
      BY <1>1, <3>1 DEF ChainInv, SeenIsLinked
    <3>5. \A i \in 1 .. n : Follows(i) /\ link[chainSeen[i]] # Missing
      BY <1>1 DEF ChainInv, ChainType, SeenIsLinked, Stored
    <3>6. IsChain(chainSeen)
      BY <1>1, <3>1, <3>4, <3>5 DEF ChainInv, SeenIsLinked, IsChain, Follows
    <3> QED BY <3>3, <3>6 DEF Chain
  <2>3. ASSUME chainAt = "corrupt", NEW c \in Chain, Range(c) \subseteq listed
        PROVE  FALSE
    <3>1. /\ c \in Seq(EventKey) /\ Len(c) = chainHead.count /\ IsChain(c)
          /\ \A i \in 1 .. Len(c) : c[i] \in EventKey /\ c[i] \in listed
      BY <2>3, ChainIs DEF Range
    <3>2. /\ \A i \in 1 .. n : chainSeen[i] = c[i]
          /\ chainKey = IF n < chainHead.count THEN c[n + 1] ELSE NoKey
      BY <1>1 DEF ChainInv, BeginningOf
    <3>3. CASE n < chainHead.count
      <4>1. n + 1 \in 1 .. Len(c) /\ chainKey = c[n + 1]
        BY <3>1, <3>2, <3>3, <2>1
      <4>2. chainKey \in listed /\ chainKey # NoKey
        BY <3>1, <4>1
      <4>3. chainKey \notin Range(chainSeen)
        <5>1. \A i \in 1 .. n : i \in DOMAIN c /\ i # n + 1
          BY <2>1, <3>1
        <5>2. \A i \in 1 .. n : c[i] # c[n + 1]
          BY <3>1, <4>1, <5>1 DEF IsChain, IsInjective
        <5> QED BY <2>1, <3>2, <4>1, <5>2 DEF Range
      <4>4. WantsMore /\ ~Refused
        BY <2>1, <3>3, <4>2, <4>3 DEF WantsMore, Refused, FullRead
      <4> QED BY <1>1, <2>3, <4>4 DEF ChainInv, ChainEnd
    <3>4. CASE ~(n < chainHead.count)
      BY <1>1, <2>1, <2>3, <3>2, <3>4
      DEF ChainInv, ChainEnd, WantsMore, WrongLength
    <3> QED BY <3>3, <3>4
  <2> QED BY <2>2, <2>3
<1> QED BY ChainInvariant, <1>1, PTL

\* A read with num_recent_events, after_timestamp or both is never refused on
\* an intact chain and returns its newest part, up to the limit or the first
\* event that is too old.
THEOREM FilteredReadsAreTails == ChainSpec => []FilteredReadIsTheTail
<1>1. ASSUME ChainInv PROVE FilteredReadIsTheTail
  <2> DEFINE n == Len(chainSeen)
             Tail_(c) ==
               /\ chainAt = "returned"
               /\ n <= Len(c) /\ chainSeen = SubSeq(c, 1, n)
               /\ \A i \in 1 .. n : c[i] \notin tooOld
               /\ chainLimit # NoLimit => n <= chainLimit
               /\ n = Len(c) \/ n = chainLimit \/ c[n + 1] \in tooOld
  <2> SUFFICES ASSUME NEW c \in Chain, ~FullRead, chainAt # "reading"
               PROVE  Tail_(c)
    BY DEF FilteredReadIsTheTail
  <2>1. /\ n \in Nat /\ chainHead.count \in Nat /\ n <= chainHead.count
        /\ chainLimit # NoLimit => chainLimit \in Nat /\ n <= chainLimit
        /\ chainSeen \in Seq(EventKey)
        /\ listed = Stored
        /\ \A i \in 1 .. n : chainSeen[i] \notin tooOld
    BY <1>1 DEF ChainInv, ChainType, SeenIsLinked
  <2>2. /\ c \in Seq(EventKey) /\ Len(c) = chainHead.count /\ IsChain(c)
        /\ \A i \in 1 .. Len(c) : c[i] \in EventKey /\ c[i] \in listed
    BY <2>1, ChainIs DEF Stored
  <2>3. /\ \A i \in 1 .. n : chainSeen[i] = c[i]
        /\ chainHead.count > 0 =>
             chainKey = IF n < chainHead.count THEN c[n + 1] ELSE NoKey
    BY <1>1 DEF ChainInv, BeginningOf
  <2>4. n < chainHead.count =>
          chainKey # NoKey /\ chainKey \in listed /\ chainKey = c[n + 1]
          /\ chainKey \notin Range(chainSeen)
    <3> SUFFICES ASSUME n < chainHead.count
                 PROVE  chainKey # NoKey /\ chainKey \in listed
                        /\ chainKey = c[n + 1]
                        /\ chainKey \notin Range(chainSeen)
      OBVIOUS
    <3>1. n + 1 \in 1 .. Len(c) /\ chainKey = c[n + 1]
      BY <2>1, <2>2, <2>3
    <3>2. \A i \in 1 .. n : i \in DOMAIN c /\ i # n + 1
      BY <2>1, <2>2
    <3>3. \A i \in 1 .. n : c[i] # c[n + 1]
      BY <2>2, <3>1, <3>2 DEF IsChain, IsInjective
    <3> QED BY <2>1, <2>2, <2>3, <3>1, <3>3 DEF Range
  <2>5. ~(WantsMore /\ Refused) /\ ~WrongLength
    BY <2>1, <2>3, <2>4 DEF WantsMore, Refused, WrongLength
  <2>6. chainAt = "returned" /\ (WantsMore => chainKey \in tooOld)
    BY <1>1, <2>5 DEF ChainInv, ChainEnd, ChainType
  <2>7. n = Len(c) \/ n = chainLimit \/ c[n + 1] \in tooOld
    <3>1. CASE WantsMore
      BY <2>1, <2>2, <2>3, <2>4, <2>6, <3>1 DEF WantsMore
    <3>2. CASE ~WantsMore
      BY <2>1, <2>2, <2>4, <3>2 DEF WantsMore
    <3> QED BY <3>1, <3>2
  <2>8. chainSeen = SubSeq(c, 1, n) /\ n <= Len(c)
    BY <2>1, <2>2, <2>3
  <2> QED BY <2>1, <2>3, <2>6, <2>7, <2>8
<1> QED BY ChainInvariant, <1>1, PTL
-----------------------------------------------------------------------------
(* The pages.  A row that was there when the walk began only ever moves    *)
(* towards the end, so it cannot slip past the walk.                       *)

\* Every page before pageNo, up to position n, has been received.
ReceivedUpTo(n) ==
  \A i \in 1 .. Len(rows) : i <= n /\ rows[i] \in begun => rows[i] \in seen

PagedType ==
  /\ listing \in Listing
  /\ rows \in Seq(Nat)
  /\ \A i \in 1 .. Len(rows) : rows[i] <= Len(rows)
  /\ IsInjective(rows)
  /\ clamp \in {PageSize, PageSize - 1}
  /\ listing = "sessions" => clamp = PageSize
  /\ pageNo \in Nat
  /\ walkAt \in {"walking", "ended", "raised"}

\* A row that was there when the walk began is there still.
BegunAreThere ==
  \A r \in begun : r <= Len(rows) /\ \E i \in 1 .. Len(rows) : rows[i] = r

WalkIsOn == clamp = PageSize =>
  /\ walkAt = "walking" => ReceivedUpTo(pageNo * PageSize)
  /\ walkAt = "ended" => begun \subseteq seen

PagedInv == PagedType /\ BegunAreThere /\ WalkIsOn

LEMMA PagedInitInv == PagedInit => PagedInv
<1> SUFFICES ASSUME PagedInit PROVE PagedInv
  OBVIOUS
<1>1. PICK n \in 0 .. MaxRows : rows = [i \in 1 .. n |-> i]
  BY DEF PagedInit
<1>2. rows \in Seq(Nat) /\ Len(rows) = n /\ n \in Nat
      /\ \A i \in 1 .. n : rows[i] = i
  BY <1>1
<1>3. begun = 1 .. n
  BY <1>1, <1>2 DEF PagedInit, Range
<1>4. PagedType
  BY <1>1, <1>2 DEF PagedInit, PagedType, IsInjective
<1>5. BegunAreThere
  BY <1>2, <1>3 DEF BegunAreThere
<1>6. WalkIsOn
  <2>1. pageNo * PageSize = 0 /\ walkAt = "walking"
    BY DEF PagedInit
  <2> QED BY <1>2, <2>1 DEF WalkIsOn, ReceivedUpTo
<1> QED BY <1>4, <1>5, <1>6 DEF PagedInv

\* A page holds the rows of its positions, each once, and what is counted of
\* it is never less.
LEMMA PageIs ==
  ASSUME PagedInv, clamp = PageSize,
         NEW a \in Nat, a = pageNo * PageSize,
         NEW b \in Nat, b = SmallerOf((pageNo + 1) * PageSize, Len(rows)),
         a < b
  PROVE  /\ Range(ServedPage) = {rows[i] : i \in a + 1 .. b}
         /\ RowCount >= b - a
<1> DEFINE Positions == a + 1 .. b
           page == ServedPage
           Rows == {rows[i] : i \in Positions}
<1>0. b <= Len(rows) /\ Len(rows) \in Nat /\ rows \in Seq(Nat)
  BY DEF PagedInv, PagedType, SmallerOf
<1>1. page = SubSeq(rows, a + 1, b)
  BY DEF ServedPage
<1>2. Range(page) = Rows
  <2>1. Len(page) = b - a /\ DOMAIN page = 1 .. b - a
        /\ \A i \in 1 .. b - a : page[i] = rows[a + i]
    <3>1. a + 1 \in 1 .. Len(rows) + 1 /\ b \in 0 .. Len(rows)
          /\ b - (a + 1) + 1 = b - a /\ a + 1 <= b
      BY <1>0
    <3> HIDE DEF page
    <3>4. \A i \in a + 1 .. b : rows[i] \in Nat
      BY <1>0
    <3>2. Len(page) = b - (a + 1) + 1 /\ page \in Seq(Nat)
      BY <1>0, <1>1, <3>1, <3>4, SubSeqProperties
    <3>3. ASSUME NEW i \in 1 .. b - a PROVE page[i] = rows[a + i]
      <4>1. i \in 1 .. b - (a + 1) + 1 /\ (a + 1) + i - 1 = a + i
        BY <3>1
      <4>2. \A k \in 1 .. b - (a + 1) + 1 :
              page[k] = rows[(a + 1) + k - 1]
        <5>1. a + 1 \in Int /\ b \in Int
          OBVIOUS
        <5> DEFINE c == a + 1
        <5> HIDE DEF c
        <5>2. c \in Int /\ \A m \in c .. b : rows[m] \in Nat
          BY <3>4, <5>1 DEF c
        <5>3. \A k \in 1 .. b - c + 1 : SubSeq(rows, c, b)[k] = rows[c + k - 1]
          BY <5>1, <5>2, SubSeqProperties
        <5> QED BY <1>1, <5>3 DEF c
      <4> QED BY <4>1, <4>2
    <3> QED BY <3>1, <3>2, <3>3
  <2>2. \A i \in 1 .. b - a : a + i \in Positions
    OBVIOUS
  <2>3. \A j \in Positions : j - a \in 1 .. b - a /\ a + (j - a) = j
    OBVIOUS
  <2> HIDE DEF page, Positions
  <2>4. \A x \in Range(page) : x \in Rows
    BY <2>1, <2>2 DEF Range
  <2>5. ASSUME NEW j \in Positions PROVE rows[j] \in Range(page)
    <3>1. j - a \in DOMAIN page /\ page[j - a] = rows[j]
      BY <2>1, <2>3
    <3> QED BY <3>1 DEF Range
  <2> QED BY <2>4, <2>5
<1> HIDE DEF page
<1>3. IsFiniteSet(Positions) /\ Cardinality(Positions) = b - a
  <2>1. a + 1 \in Int /\ b \in Int /\ ~(a + 1 > b) /\ b - (a + 1) + 1 = b - a
    OBVIOUS
  <2> QED BY <2>1, FS_Interval
<1>4. IsFiniteSet(Rows) /\ Cardinality(Rows) = b - a
  <2> DEFINE f == [i \in Positions |-> rows[i]]
  <2>1. \A i, j \in Positions : rows[i] = rows[j] => i = j
    <3>1. \A i \in Positions : i \in DOMAIN rows
      BY <1>0
    <3> QED BY <3>1 DEF PagedInv, PagedType, IsInjective
  <2>2. f \in Bijection(Positions, Rows)
    <3> HIDE DEF Positions
    <3> QED BY <2>1 DEF Bijection, Injection, Surjection, IsInjective
  <2>3. ExistsBijection(Positions, Rows)
    BY <2>2 DEF ExistsBijection
  <2> HIDE DEF Positions, Rows
  <2> QED BY <2>3, <1>3, FS_Bijection
<1> HIDE DEF Rows, Positions
<1>5. RowCount >= b - a
  <2>1. Items = Rows \ malformed /\ Rejected = Rows \cap malformed
    BY <1>2 DEF Items, Rejected, page
  <2>2. IsFiniteSet(Items) /\ IsFiniteSet(Rejected)
        /\ Cardinality(Items) = Cardinality(Rows) - Cardinality(Rejected)
        /\ Cardinality(Items) \in Nat /\ Cardinality(Rejected) \in Nat
    BY <1>4, <2>1, FS_Difference, FS_Intersection, FS_CardinalityType
  <2>3. Cardinality(Range(ServedPage) \cap several) \in Nat
    BY <1>2, <1>4, FS_Intersection, FS_CardinalityType DEF page
  <2> QED BY <1>4, <2>2, <2>3 DEF RowCount
<1> QED BY <1>2, <1>5 DEF page, Rows, Positions

LEMMA ReadPageKeeps ==
  ASSUME PagedInv, ReadPage
  PROVE  PagedInv'
<1>1. UNCHANGED <<listing, rows, begun, malformed, several, clamp>>
      /\ walkAt = "walking"
  BY DEF ReadPage
<1>2. PagedType' /\ BegunAreThere'
  BY <1>1 DEF PagedInv, PagedType, BegunAreThere, ReadPage
<1>3. CASE Rejected # {} /\ listing \in {"events", "sessions"}
  BY <1>1, <1>2, <1>3 DEF ReadPage, PagedInv, WalkIsOn
<1>4. CASE ~(Rejected # {} /\ listing \in {"events", "sessions"})
  <2>1. /\ seen' = seen \cup Items \cup Rejected
        /\ walkAt' = IF LastPage THEN "ended" ELSE "walking"
        /\ pageNo' = pageNo + 1
    BY <1>4 DEF ReadPage
  <2>2. WalkIsOn'
    <3> SUFFICES ASSUME clamp = PageSize PROVE WalkIsOn'
      BY <1>1 DEF WalkIsOn
    <3> DEFINE a == pageNo * PageSize
               m == (pageNo + 1) * PageSize
               b == SmallerOf(m, Len(rows))
    <3>1. a \in Nat /\ m \in Nat /\ m = a + PageSize /\ PageSize \in Nat
          /\ PageSize > 0 /\ Len(rows) \in Nat /\ b \in Nat
          /\ m = pageNo' * PageSize
      BY <2>1 DEF PagedInv, PagedType, SmallerOf
    <3>2. ReceivedUpTo(a) /\ seen' = seen \cup Range(ServedPage)
      BY <1>1, <2>1 DEF PagedInv, WalkIsOn, Items, Rejected
    <3>3. a < b => /\ Range(ServedPage) = {rows[i] : i \in a + 1 .. b}
                   /\ RowCount >= b - a
      BY <3>1, PageIs
    <3> HIDE DEF a, m
    <3>4. \A i \in 1 .. Len(rows) :
            i <= m /\ rows[i] \in begun => rows[i] \in seen'
      <4>1. ASSUME NEW i \in 1 .. Len(rows), i <= m, rows[i] \in begun
            PROVE  rows[i] \in seen'
        <5>1. CASE i <= a
          BY <3>2, <4>1, <5>1 DEF ReceivedUpTo
        <5>2. CASE ~(i <= a)
          <6>1. i \in a + 1 .. b /\ a < b
            BY <3>1, <4>1, <5>2 DEF SmallerOf
          <6> QED BY <3>2, <3>3, <6>1
        <5> QED BY <5>1, <5>2
      <4> QED BY <4>1
    <3>5. ASSUME LastPage PROVE m >= Len(rows)
      <4>1. CASE listing = "sessions"
        <5>1. CASE ServedPage = <<>>
          <6>1. ~(a < b)
            <7> SUFFICES ASSUME a < b PROVE FALSE
              OBVIOUS
            <7>1. a + 1 \in a + 1 .. b
              BY <3>1
            <7>2. rows[a + 1] \in Range(ServedPage)
              BY <3>3, <7>1
            <7>3. Range(<< >>) = {}
              BY DEF Range
            <7> QED BY <5>1, <7>2, <7>3
          <6> QED BY <3>1, <6>1 DEF SmallerOf
        <5>2. CASE (pageNo + 1) * PageSize >= Len(rows)
          BY <5>2 DEF m
        <5> QED BY <3>5, <4>1, <5>1, <5>2 DEF LastPage, TotalReached
      <4>2. CASE listing # "sessions"
        <5>1. RowCount < PageSize
          BY <3>5, <4>2 DEF LastPage, ShortPage
        <5>2. CASE a < b
          <6>1. RowCount >= b - a
            BY <3>3, <5>2
          <6>2. RowCount \in Int
            <7>1. IsFiniteSet(a + 1 .. b)
              BY <3>1, FS_Interval
            <7>2. Range(ServedPage) \subseteq 0 .. Len(rows)
              <8>1. \A i \in a + 1 .. b : rows[i] \in 0 .. Len(rows)
                BY <3>1 DEF PagedInv, PagedType, SmallerOf
              <8> QED BY <3>3, <5>2, <8>1
            <7>3. IsFiniteSet(0 .. Len(rows))
              BY <3>1, FS_Interval
            <7>4. IsFiniteSet(Range(ServedPage))
              BY <7>2, <7>3, FS_Subset
            <7> QED
              BY <7>4, FS_Difference, FS_Intersection, FS_CardinalityType,
                 FS_Subset DEF RowCount, Items, Rejected
          <6> QED BY <3>1, <5>1, <6>1, <6>2 DEF SmallerOf
        <5>3. CASE ~(a < b)
          BY <3>1, <5>3 DEF SmallerOf
        <5> QED BY <5>2, <5>3
      <4> QED BY <4>1, <4>2
    <3>6. walkAt' = "ended" => begun \subseteq seen'
      <4> SUFFICES ASSUME walkAt' = "ended", NEW r \in begun
                   PROVE  r \in seen'
        OBVIOUS
      <4>1. LastPage
        BY <2>1
      <4>2. PICK i \in 1 .. Len(rows) : rows[i] = r
        BY DEF PagedInv, BegunAreThere
      <4>3. i <= m
        BY <3>1, <3>5, <4>1
      <4> QED BY <3>4, <4>2, <4>3
    <3>7. ReceivedUpTo(pageNo * PageSize)'
      BY <1>1, <3>1, <3>4 DEF ReceivedUpTo
    <3> QED BY <1>1, <3>6, <3>7 DEF WalkIsOn
  <2> QED BY <1>2, <2>2 DEF PagedInv
<1> QED BY <1>3, <1>4

\* t is s with e put in at position p.
WithOneMore(s, p, e, t) ==
  /\ t \in Seq(Nat) /\ Len(t) = Len(s) + 1
  /\ \A i \in 1 .. p - 1 : t[i] = s[i]
  /\ t[p] = e
  /\ \A i \in p + 1 .. Len(s) + 1 : t[i] = s[i - 1]

LEMMA InsertedIs ==
  ASSUME NEW s \in Seq(Nat), NEW p \in 1 .. Len(s) + 1, NEW e \in Nat
  PROVE  WithOneMore(s, p, e, InsertAt(s, p, e))
<1> DEFINE n      == Len(s)
           before == SubSeq(s, 1, p - 1)
           one    == <<e>>
           front  == before \o one
           after  == SubSeq(s, p, n)
           t      == front \o after
<1>1. /\ before \in Seq(Nat) /\ Len(before) = p - 1
      /\ \A i \in 1 .. p - 1 : before[i] = s[i]
  OBVIOUS
<1>2. /\ after \in Seq(Nat) /\ Len(after) = n - p + 1
      /\ \A i \in 1 .. n - p + 1 : after[i] = s[p + i - 1]
  <2>1. n \in Nat /\ p \in 1 .. n + 1
    OBVIOUS
  <2>2. CASE p = n + 1
    <3>1. after = << >>
      BY <2>1, <2>2
    <3> QED BY <2>1, <2>2, <3>1
  <2>3. CASE p <= n
    BY <2>1, <2>3
  <2> QED BY <2>1, <2>2, <2>3
<1>3. one \in Seq(Nat) /\ Len(one) = 1 /\ one[1] = e
  OBVIOUS
<1>4. t = InsertAt(s, p, e)
  BY DEF InsertAt
<1>5. n \in Nat /\ p \in Nat /\ p >= 1 /\ p <= n + 1 /\ p - 1 \in Nat
  OBVIOUS
<1> HIDE DEF n, before, one, after
<1>6. front \in Seq(Nat) /\ Len(front) = p
      /\ (\A i \in 1 .. p - 1 : front[i] = s[i]) /\ front[p] = e
  <2>1. /\ front \in Seq(Nat) /\ Len(front) = Len(before) + Len(one)
        /\ \A i \in 1 .. Len(before) + Len(one) : front[i] =
             IF i <= Len(before) THEN before[i] ELSE one[i - Len(before)]
    BY <1>1, <1>3, ConcatProperties, Zenon
  <2> HIDE DEF front
  <2>2. \A i \in 1 .. p - 1 : i \in 1 .. Len(before) + Len(one)
                              /\ i <= Len(before)
    BY <1>1, <1>3, <1>5
  <2>3. p \in 1 .. Len(before) + Len(one) /\ ~(p <= Len(before))
        /\ p - Len(before) = 1 /\ Len(before) + Len(one) = p
    BY <1>1, <1>3, <1>5
  <2>4. \A i \in 1 .. p - 1 : front[i] = s[i]
    BY <1>1, <2>1, <2>2
  <2>5. front[p] = e
    BY <1>3, <2>1, <2>3
  <2> QED BY <2>1, <2>3, <2>4, <2>5
<1> HIDE DEF front
<1>7. /\ t \in Seq(Nat) /\ Len(t) = n + 1
      /\ \A i \in 1 .. n + 1 : t[i] =
           IF i <= p THEN front[i] ELSE after[i - p]
  <2>1. /\ t \in Seq(Nat) /\ Len(t) = Len(front) + Len(after)
        /\ \A i \in 1 .. Len(front) + Len(after) : t[i] =
             IF i <= Len(front) THEN front[i] ELSE after[i - Len(front)]
    <3>1. front \in Seq(Nat) /\ after \in Seq(Nat)
      BY <1>2, <1>6
    <3> QED BY <3>1, ConcatProperties, Zenon
  <2> HIDE DEF t
  <2>2. Len(front) = p /\ Len(front) + Len(after) = n + 1
    BY <1>2, <1>5, <1>6
  <2> QED BY <2>1, <2>2
<1>8. \A i \in 1 .. p : t[i] = front[i]
  <2> HIDE DEF t
  <2>1. \A i \in 1 .. p : i \in 1 .. n + 1 /\ i <= p
    BY <1>5
  <2> QED BY <1>7, <2>1
<1>9. ASSUME NEW i \in p + 1 .. n + 1 PROVE t[i] = s[i - 1]
  <2>1. i - p \in 1 .. n - p + 1 /\ p + (i - p) - 1 = i - 1
        /\ i \in 1 .. n + 1 /\ ~(i <= p)
    BY <1>5
  <2> HIDE DEF t
  <2>2. t[i] = after[i - p]
    BY <1>7, <2>1
  <2>3. after[i - p] = s[p + (i - p) - 1]
    BY <1>2, <2>1
  <2> QED BY <2>1, <2>2, <2>3
<1> HIDE DEF t
<1> QED
  <2>1. p \in 1 .. p /\ \A i \in 1 .. p - 1 : i \in 1 .. p
    BY <1>5
  <2>2. WithOneMore(s, p, e, t)
    BY <1>6, <1>7, <1>8, <1>9, <2>1 DEF n, WithOneMore
  <2> QED BY <1>4, <2>2

LEMMA RowAddedKeeps ==
  ASSUME PagedInv, NEW at \in 1 .. Len(rows) + 1, RowAdded(at)
  PROVE  PagedInv'
<1> DEFINE n == Len(rows)
<1>1. /\ UNCHANGED <<listing, begun, malformed, several, clamp, pageNo, seen,
                     walkAt>>
      /\ rows' = InsertAt(rows, at, n + 1)
  BY DEF RowAdded
<1>2. rows \in Seq(Nat) /\ n \in Nat /\ \A i \in 1 .. n : rows[i] <= n
  BY DEF PagedInv, PagedType
<1>3. /\ rows' \in Seq(Nat) /\ Len(rows') = n + 1
      /\ \A i \in 1 .. at - 1 : rows'[i] = rows[i]
      /\ rows'[at] = n + 1
      /\ \A i \in at + 1 .. n + 1 : rows'[i] = rows[i - 1]
  <2>1. rows \in Seq(Nat) /\ at \in 1 .. Len(rows) + 1 /\ n + 1 \in Nat
    BY <1>2
  <2>2. WithOneMore(rows, at, n + 1, InsertAt(rows, at, n + 1))
    BY <2>1, InsertedIs
  <2>3. WithOneMore(rows, at, n + 1, rows')
    BY <1>1, <2>2
  <2> QED BY <2>3 DEF WithOneMore
<1> HIDE DEF n
<1>4. at \in Nat /\ at >= 1 /\ at <= n + 1
  BY <1>2 DEF n
\* Where the row at position i came from.
<1> DEFINE from(i) == IF i < at THEN i ELSE i - 1
<1>5. ASSUME NEW i \in 1 .. n + 1, i # at
      PROVE  from(i) \in 1 .. n /\ rows'[i] = rows[from(i)]
             /\ from(i) <= i
  <2>1. CASE i < at
    <3>1. i \in 1 .. at - 1 /\ i \in 1 .. n
      BY <1>2, <1>4, <2>1
    <3> QED BY <1>3, <2>1, <3>1
  <2>2. CASE i > at
    <3>1. i \in at + 1 .. n + 1 /\ i - 1 \in 1 .. n /\ ~(i < at)
      BY <1>2, <1>4, <2>2
    <3> QED BY <1>3, <3>1
  <2> QED BY <1>4, <1>5, <2>1, <2>2
<1>6. PagedType'
  <2>1. \A i \in 1 .. n + 1 : rows'[i] <= n + 1
    <3> SUFFICES ASSUME NEW i \in 1 .. n + 1 PROVE rows'[i] <= n + 1
      OBVIOUS
    <3>1. CASE i = at
      BY <1>2, <1>3, <3>1
    <3>2. CASE i # at
      <4> HIDE DEF from
      <4>1. rows[from(i)] <= n /\ rows[from(i)] \in Nat
        BY <1>2, <1>5, <3>2 DEF n
      <4>2. rows'[i] <= n
        BY <1>5, <3>2, <4>1
      <4> QED BY <1>2, <1>5, <3>2, <4>1, <4>2
    <3> QED BY <3>1, <3>2
  <2>2. ASSUME NEW i \in 1 .. n + 1, NEW j \in 1 .. n + 1,
               rows'[i] = rows'[j]
        PROVE  i = j
    <3>1. CASE i = at \/ j = at
      <4>1. ASSUME NEW k \in 1 .. n + 1, k # at PROVE rows'[k] # n + 1
        <5> HIDE DEF from
        <5>1. rows'[k] = rows[from(k)] /\ rows[from(k)] <= n
              /\ rows[from(k)] \in Nat
          BY <1>2, <1>5, <4>1 DEF n
        <5> QED BY <1>2, <5>1
      <4> QED BY <1>3, <2>2, <3>1, <4>1
    <3>2. CASE i # at /\ j # at
      <4>1. from(i) = from(j)
        <5> HIDE DEF from
        <5>1. rows[from(i)] = rows[from(j)] /\ from(i) \in DOMAIN rows
              /\ from(j) \in DOMAIN rows
          BY <1>2, <1>5, <2>2, <3>2 DEF n
        <5> QED BY <5>1 DEF PagedInv, PagedType, IsInjective
      <4> QED BY <1>2, <1>4, <3>2, <4>1
    <3> QED BY <3>1, <3>2
  <2>3. IsInjective(rows')
    <3>1. DOMAIN rows' = 1 .. n + 1
      BY <1>3
    <3> QED BY <2>2, <3>1 DEF IsInjective
  <2> QED BY <1>1, <1>3, <2>1, <2>3 DEF PagedInv, PagedType
<1>7. BegunAreThere'
  <2>1. ASSUME NEW r \in begun
        PROVE  r <= n + 1 /\ \E i \in 1 .. n + 1 : rows'[i] = r
    <3>1. PICK i \in 1 .. n : rows[i] = r
      BY DEF PagedInv, BegunAreThere, n
    <3>2. r <= n + 1
      <4>1. rows[i] <= n /\ rows[i] \in Nat
        BY <1>2 DEF n
      <4> QED BY <1>2, <3>1, <4>1
    <3>3. CASE i < at
      <4>1. i \in 1 .. n + 1 /\ i \in 1 .. at - 1
        BY <1>2, <1>4, <3>3
      <4> QED BY <1>3, <3>1, <3>2, <4>1
    <3>4. CASE ~(i < at)
      <4>1. i + 1 \in 1 .. n + 1 /\ i + 1 \in at + 1 .. n + 1
            /\ (i + 1) - 1 = i
        BY <1>2, <1>4, <3>4
      <4>2. rows'[i + 1] = r
        BY <1>3, <3>1, <4>1
      <4> QED BY <3>2, <4>1, <4>2
    <3> QED BY <3>3, <3>4
  <2> QED BY <1>1, <1>3, <2>1 DEF BegunAreThere
<1>8. WalkIsOn'
  <2>1. ASSUME NEW p \in Nat, ReceivedUpTo(p)
        PROVE  \A i \in 1 .. n + 1 :
                 i <= p /\ rows'[i] \in begun => rows'[i] \in seen
    <3> SUFFICES ASSUME NEW i \in 1 .. n + 1, i <= p, rows'[i] \in begun
                 PROVE  rows'[i] \in seen
      OBVIOUS
    <3>1. i # at
      <4>1. n + 1 \notin begun
        BY <1>2 DEF PagedInv, BegunAreThere, n
      <4> QED BY <1>3, <4>1
    <3>2. from(i) \in 1 .. n /\ rows'[i] = rows[from(i)] /\ from(i) <= i
      BY <1>5, <3>1
    <3> HIDE DEF from
    <3>3. from(i) <= p
      BY <2>1, <3>2, <1>2
    <3> QED BY <2>1, <3>2, <3>3 DEF ReceivedUpTo, n
  <2>2. pageNo * PageSize \in Nat
    BY DEF PagedInv, PagedType
  <2> QED
    BY <1>1, <1>3, <2>1, <2>2 DEF PagedInv, WalkIsOn, ReceivedUpTo
<1> QED BY <1>6, <1>7, <1>8 DEF PagedInv

LEMMA PagedNextInv == PagedInv /\ [PagedNext]_pagedVars => PagedInv'
<1> SUFFICES ASSUME PagedInv, [PagedNext]_pagedVars PROVE PagedInv'
  OBVIOUS
<1>1. CASE ReadPage
  BY <1>1, ReadPageKeeps
<1>2. ASSUME NEW i \in 1 .. Len(rows) + 1, RowAdded(i) PROVE PagedInv'
  BY <1>2, RowAddedKeeps
<1>3. CASE UNCHANGED pagedVars
  BY <1>3 DEF pagedVars, PagedInv, PagedType, BegunAreThere, WalkIsOn,
     ReceivedUpTo
<1> QED BY <1>1, <1>2, <1>3 DEF PagedNext

\* Inductive: a row that was there at the start was seen or is still ahead of
\* the next page.
THEOREM PagedInvariant == PagedSpec => []PagedInv
BY PagedInitInv, PagedNextInv, PTL DEF PagedSpec

\* Every way in which the SDK pages ends complete, for any page size, any
\* number of rows added anywhere during the walk, and any rows that do not
\* parse, on a server that keeps to the page size it was asked for.
THEOREM WalksAreComplete == PagedSpec => []WalkIsComplete
<1>1. PagedInv => WalkIsComplete
  BY DEF PagedInv, WalkIsOn, WalkIsComplete
<1> QED BY PagedInvariant, <1>1, PTL
==============================================================================
