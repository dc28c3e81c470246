----------------------------- MODULE EventChain ------------------------------
(***************************************************************************)
(* Reading a session's events back (read_events, _walk and _read_all in    *)
(* adk/_store.py).  The head names the last event record and counts them;  *)
(* each record names its predecessor.  What is stored is arbitrary here:   *)
(* records may be missing, linked in a cycle or more or fewer than the     *)
(* head says, and the listing that a full read starts from may have left   *)
(* records out (a server that clamps pages).  A read with num_recent_events*)
(* or after_timestamp walks back from the head; one with neither is full.  *)
(* One step per record read.                                               *)
(***************************************************************************)
EXTENDS Naturals, SequencesExt

CONSTANTS
  EventKey, NoKey,
  Missing,   \* the record is not stored
  MaxCount,  \* event_count at most
  NoLimit    \* num_recent_events is None

ASSUME ChainAssumption ==
  MaxCount \in Nat /\ NoLimit \notin Nat /\ NoKey \notin EventKey

VARIABLES
  link,        \* prev_key of every stored record
  listed,      \* the records that the listing of a full read returned
  chainHead,   \* event_count and last_event_key of the head
  chainLimit,  \* NoLimit, or num_recent_events
  chainAfter,  \* an after_timestamp was given
  tooOld,      \* the records whose event is older than that
  chainKey,    \* the record to read next
  chainSeen,   \* the records kept, newest first
  chainAt      \* reading, returned or corrupt

chainArgs == <<link, listed, chainHead, chainLimit, chainAfter, tooOld>>
chainVars == <<chainArgs, chainKey, chainSeen, chainAt>>

Stored == {k \in EventKey : link[k] # Missing}

\* Neither filter was given: read_events lists the records.
FullRead == chainLimit = NoLimit /\ ~chainAfter

ChainInit ==
  /\ link \in [EventKey -> EventKey \cup {NoKey, Missing}]
  /\ listed \in SUBSET Stored
  /\ chainHead \in [count : 0 .. MaxCount, last : EventKey \cup {NoKey}]
  /\ chainLimit \in {NoLimit} \cup (0 .. MaxCount)
  /\ chainAfter \in BOOLEAN
  /\ tooOld \in SUBSET Stored
  /\ ~chainAfter => tooOld = {}
  /\ ~FullRead => listed = Stored
  /\ chainKey = chainHead.last
  /\ chainSeen = <<>>
  /\ chainAt = "reading"

\* A head without events is read as such; a walk needs no more than its limit;
\* mutant: one more.
WantsOneMore ==
  /\ chainHead.count > 0
  /\ chainKey # NoKey
  /\ chainLimit # NoLimit => Len(chainSeen) <= chainLimit
WantsMore ==
  /\ chainHead.count > 0
  /\ chainKey # NoKey
  /\ chainLimit # NoLimit => Len(chainSeen) < chainLimit

\* A key met twice, or more keys than the head counts.
Refused ==
  \/ chainKey \in Range(chainSeen)
  \/ Len(chainSeen) >= chainHead.count
  \/ chainKey \notin listed

\* _record and what the loop does with it.  The break of a walk at the first
\* event that is too old ends it: nothing looks at the walk's own set again.
ReadRecord ==
  /\ chainAt = "reading" /\ WantsMore
  /\ \/ /\ Refused
        /\ chainAt' = "corrupt" /\ UNCHANGED <<chainKey, chainSeen>>
     \/ /\ ~Refused /\ chainKey \in tooOld
        /\ chainAt' = "returned" /\ UNCHANGED <<chainKey, chainSeen>>
     \/ /\ ~Refused /\ chainKey \notin tooOld
        /\ chainSeen' = Append(chainSeen, chainKey)
        /\ chainKey' = link[chainKey]
        /\ UNCHANGED chainAt
  /\ UNCHANGED chainArgs

\* Only the full read compares the length with the head; mutant: none does.
WrongLengthNever == FALSE
WrongLength ==
  /\ FullRead /\ chainHead.last # NoKey
  /\ Len(chainSeen) # chainHead.count

ReadReturns ==
  /\ chainAt = "reading" /\ ~WantsMore
  /\ chainAt' = IF WrongLength THEN "corrupt" ELSE "returned"
  /\ UNCHANGED <<chainArgs, chainKey, chainSeen>>

ChainNext == ReadRecord \/ ReadReturns
ChainSpec == ChainInit /\ [][ChainNext]_chainVars

----------------------------------------------------------------------------
\* c is the chain that the head stands for, newest first.
IsChain(c) ==
  /\ Len(c) = chainHead.count
  /\ IsInjective(c)
  /\ \A i \in 1 .. Len(c) :
       /\ link[c[i]] # Missing
       /\ c[i] = IF i = 1 THEN chainHead.last ELSE link[c[i-1]]
       /\ i = Len(c) => link[c[i]] = NoKey

Chain == {c \in SeqOf(EventKey, MaxCount) : IsChain(c)}

\* A full read returns exactly the committed chain, and refuses when a record
\* of it is not stored, is linked wrongly or was left out by the listing:
\* history is never silently shortened.
EventsAreWholeOrRefused ==
  FullRead /\ chainHead.count > 0 /\ chainHead.last # NoKey =>
    /\ chainAt = "returned" => chainSeen \in Chain
    /\ chainAt = "corrupt" => \A c \in Chain : ~(Range(c) \subseteq listed)

\* A filtered read of an intact chain is never refused and is its newest part:
\* no event too old is in it, and it ends only at the limit, before an event
\* that is too old, or with the chain.
FilteredReadIsTheTail ==
  \A c \in Chain : ~FullRead /\ chainAt # "reading" =>
    LET n == Len(chainSeen)
    IN /\ chainAt = "returned"
       /\ n <= Len(c) /\ chainSeen = SubSeq(c, 1, n)
       /\ \A i \in 1 .. n : c[i] \notin tooOld
       /\ chainLimit # NoLimit => n <= chainLimit
       /\ n = Len(c) \/ n = chainLimit \/ c[n + 1] \in tooOld
==============================================================================
